---- MODULE Spec2Model ----
(***************************************************************************)
(* Geodesic direct/inverse solvers of libproj4's geodesic library          *)
(* (src/geodesic) and of PROJ.4's geod program (src/src).                  *)
(*                                                                         *)
(* Numbers.  The C code computes in IEEE doubles.  The model holds every   *)
(* quantity in fixed point on one integer grid:                            *)
(*   - an angle is a whole number of ticks, Q ticks to the quarter turn,   *)
(*     so M_PI_2 = Q, M_PI = 2Q and a full turn is 4Q ticks;               *)
(*   - a dimensionless number (x = lon/pi, the flattening f, es) is held   *)
(*     in units of 1/ONE with ONE = M_PI ticks, so that lon * M_1_PI is    *)
(*     the same whole number as lon and pi*(1-f) is M_PI - f;              *)
(*   - the tolerances of the code (5e-15 .. .007) are far below the grid   *)
(*     step of any model TLC can enumerate; each is held as a small        *)
(*     number of ticks that keeps their order: TOL0 = TTA < TOL1 = EPS <   *)
(*     3*DBL_EPSILON (in x units) < TT < DTOL < TOL2 < M_PI_2;             *)
(*   - a double has a 53 bit significand: at or above 2^52 it has no       *)
(*     fractional part.  DBL_INT_LIMIT is that magnitude on the grid.      *)
(* The value of a libm function whose argument is itself a product of      *)
(* libm values (asin, atan2, ... of trigonometric expressions) is drawn    *)
(* from the range of the function; branch conditions, normalisations,      *)
(* loop counters and stores are computed as the code computes them.        *)
(***************************************************************************)
EXTENDS Integers, Sequences, FiniteSets, TLC

\* ---------------------------------------------------------------- grid

\* ticks per quarter turn
Q == 12

\* magnitude (in units of 1.0) from which a double has no fractional part
DBL_INT_LIMIT == 3

M_PI_2 == Q

M_PI == 2 * Q

TWOPI == 4 * Q

\* the number 1.0, in the units of x = lon * M_1_PI
ONE == M_PI

\* proj_adjlon.c: #define DBL_EPSILON 1e-14
DBL_EPSILON == 1

Abs(v) == IF v < 0 THEN -v ELSE v

Sgn(v) == IF v < 0 THEN -1 ELSE IF v > 0 THEN 1 ELSE 0

\* copysign(m, s): magnitude of m, sign of s
copysign(m, s) == IF s < 0 THEN -Abs(m) ELSE Abs(m)

\* x - floor(x) of the double x = num/den, as a numerator over den: a double
\* of magnitude DBL_INT_LIMIT or more is a whole number, its fraction is 0
FracPart(num, den) ==
    IF Abs(num) >= den * DBL_INT_LIMIT THEN 0 ELSE num % den

\* ---------------------------------------------------------------- proj_adjlon

\* proj_adjlon with the final scaling by 4*M_PI instead of 2*M_PI
proj_adjlon_scale4(lon) ==
    LET x == lon
    IN  IF Abs(x) - ONE > 3 * DBL_EPSILON
        THEN 2 * (FracPart(x + ONE, 2 * ONE) - ONE)
        ELSE lon

\* proj_adjlon with x = 0.5 * x instead of x = 0.5 * (x + 1.0)
proj_adjlon_noshift(lon) ==
    LET x == lon
    IN  IF Abs(x) - ONE > 3 * DBL_EPSILON
        THEN FracPart(x, 2 * ONE) - ONE
        ELSE lon

\* proj_adjlon with x - (long)x, which rounds toward zero, instead of
\* x - floor(x)
proj_adjlon_trunc(lon) ==
    LET x == lon
        num == x + ONE
        frac == IF Abs(num) >= 2 * ONE * DBL_INT_LIMIT THEN 0
                ELSE Sgn(num) * (Abs(num) % (2 * ONE))
    IN  IF Abs(x) - ONE > 3 * DBL_EPSILON
        THEN frac - ONE
        ELSE lon

\* double proj_adjlon(double lon):
\*   if ((fabs(x = lon * M_1_PI) - 1.) > 3.*DBL_EPSILON) {
\*       x = 0.5 * (x + 1.0);                       -- (x + ONE) / (2 ONE)
\*       lon = ((x - floor(x)) - 0.5) * 2 * M_PI;   -- frac * 2 ONE - ONE ticks
\*   }
\*   return lon;
proj_adjlon(lon) ==
    LET x == lon
    IN  IF Abs(x) - ONE > 3 * DBL_EPSILON
        THEN FracPart(x + ONE, 2 * ONE) - ONE
        ELSE lon

\* ---------------------------------------------------------------- tolerances

\* proj_in_fwd.c: #define EPS 5e-14
EPS == 2

\* proj_in_inv.c: #define TOL0 5e-15
TOL0 == 1

\* proj_in_inv.c: #define TOL1 5e-14
TOL1 == 2

\* proj_in_inv.c: #define TOL2 .007
TOL2 == 8

\* proj_in_inv.c: #define TT 5e-13
TT == 4

\* proj_in_inv.c: the literal 5e-14 of the general loop's test
LOOP_TOL == 2

\* proj_in_inv.c: the literal 7 of while (xy >= 5e-14 && ++kount <= 7)
KOUNT_MAX == 7

\* proj_in_inv.c: the literal 6 of while (++iter <= 6)
ITER_MAX == 6

\* proj_pt_fwd.c: # define MERI_TOL 1e-9
MERI_TOL == 6

\* proj_pt_inv.c, geod_inv.c: # define DTOL 1e-12
DTOL == 5

\* ---------------------------------------------------------------- bounds

\* the ghost count of loop-body executions stops counting here
MaxBody == 10

\* the largest semi-major axis the callers pass
MaxA == 2

\* the callers' longitudes and azimuths span this many half turns either side
MaxTurns == 3

\* ---------------------------------------------------------------- data model

\* project.h: PROJ_PT_LPH (lam, phi; h is read and written by no solver).
\* nil = TRUE is the NULL pointer.
Point(l, p) == [nil |-> FALSE, lam |-> l, phi |-> p]

NullPoint == [nil |-> TRUE, lam |-> 0, phi |-> 0]

\* project.h: PROJ_ELLIPS {a, f, es, one_es}; es = f(2-f), one_es = 1-es
Ellips(a, f) ==
    [nil |-> FALSE, a |-> a, f |-> f,
     es |-> (f * (2 * ONE - f)) \div ONE,
     one_es |-> ONE - (f * (2 * ONE - f)) \div ONE]

NullEllips == [nil |-> TRUE, a |-> 0, f |-> 0, es |-> 0, one_es |-> 0]

\* project.h: PROJ_LINE {pt1, az12, pt2, az21, S, E}
Line(p1, a12, p2, a21, s, e) ==
    [pt1 |-> p1, az12 |-> a12, pt2 |-> p2, az21 |-> a21, S |-> s, E |-> e]

\* ---------------------------------------------------------------- libm

\* asin, and atan2(y, x) with x >= 0: values in [-pi/2, pi/2]
asin_range == {-M_PI_2, 0, M_PI_2}

\* atan2(y, x) with x >= 0 where it gives a latitude: a pole, the equator, or
\* a latitude between the tolerances TOL1 and TOL2 of the equator
lat_range == asin_range \cup {TOL2 - 3}

\* atan2: values in [-pi, pi]
atan2_range == {-M_PI, -M_PI_2, 0, M_PI_2, M_PI}

\* atan2 where it gives an azimuth: a westward, a northward and the two
\* southward ones, atan2(+0, x) = M_PI and atan2(-0, x) = -M_PI for x < 0
azimuth_range == {-M_PI, -M_PI_2, 0, M_PI}

\* atan((1-f) tan(phi)), the reduced latitude: keeps the sign and the poles,
\* and is nearer the equator than phi by the factor 1-f
reduced_lat(f, phi) ==
    IF Abs(phi) >= M_PI_2 THEN phi
    ELSE Sgn(phi) * (((ONE - f) * Abs(phi)) \div ONE)

\* |sin(al)| < tol for an angle al in [-pi - band, pi + band]: al is within
\* tol of 0, pi or -pi
sin_below(al, tol) ==
    \/ Abs(al) < tol
    \/ Abs(Abs(al) - M_PI) < tol

\* ---------------------------------------------------------------- state

VARIABLES
    line,    \* the caller's PROJ_LINE with the records it points to
    old,     \* the line as it was when the running call was made
    pc,      \* "idle", "direct", "inverse", a loop of the running solver, "done"
    top,     \* the function the caller called
    loc,     \* the locals that live across a loop
    wr,      \* the fields of the line the running call has assigned
    calls,   \* how often the running dispatcher has entered each solver
    ret,     \* the value the call returned: {} while there is none
    unitS,   \* the distance on the unit ellipsoid the inverse solver computed
    path,    \* the return path the running call took
    first,   \* the call before the running one, when the caller pairs two calls
    shared,  \* the ellipsoid record that the lines of concurrent calls point to
    thr,     \* the concurrent calls: for each thread its call and how far it is
    t_pc,    \* proj_adjlon test bench: 0 input chosen, 1 applied, 2 applied twice
    t_lon,   \* ... its input
    t_res,   \* ... proj_adjlon(t_lon)
    t_res2,  \* ... proj_adjlon(proj_adjlon(t_lon))
    GEODESIC, \* geod program: its static GEODESIC_T record
    gpc,     \* ... the statement the program is at ("off": no program runs)
    run,     \* ... its flags, the locals of do_arc and do_geod, what it has emitted
    pinv     \* a call of proj_inv: its arguments, locals, error numbers, position

vars == <<line, old, pc, top, loc, wr, calls, ret, unitS, path, first,
          shared, thr, t_pc, t_lon, t_res, t_res2, GEODESIC, gpc, run,
          pinv>>

solver_vars == <<line, old, pc, top, loc, wr, calls, ret, unitS, path>>

bench_vars == <<t_pc, t_lon, t_res, t_res2>>

pair_vars == <<first>>

conc_vars == <<shared, thr>>

geod_vars == <<GEODESIC, gpc, run>>

inv_vars == <<pinv>>

NoLocals == [y |-> 0, tu |-> 0, ab |-> 0, dlon |-> 0, az |-> 0, s |-> 0,
             kount |-> 0, iter |-> 0, n |-> 0]

NoCalls == [sp_fwd |-> 0, in_fwd |-> 0, sp_inv |-> 0, in_inv |-> 0, pt_inv |-> 0]

\* a line record as the caller allocates it
FreshLine == Line(Point(0, 0), 0, Point(0, 0), 0, 0, Ellips(1, 0))

\* no call went before: kind is "none", or else how the caller derived the
\* running call from the one before ("swap": the two points exchanged;
\* "trip": the inverse problem on the points of a direct solve; "reuse": the
\* same record with az12 or S changed); top, old, line, unitS and s are what
\* that call was given and what it left
NoFirst == [kind |-> "none", top |-> "none", old |-> FreshLine,
            line |-> FreshLine, unitS |-> 0, s |-> 0]

Threads == {1, 2}

\* a thread that is in no call: fn the solver, line the record it passed (E
\* holds what the shared ellipsoid held at the call), f, es, a the values the
\* call has read from the ellipsoid so far, c the libm value it drew, tu and
\* out what it computed, met whether it ran while another call was running
NoThread == [pc |-> "idle", fn |-> "none", line |-> FreshLine,
             f |-> 0, es |-> 0, a |-> 0, c |-> 0, tu |-> 0, out |-> FreshLine,
             met |-> FALSE]

\* geodesic.h 21-38: GEODESIC_T, all zero as a static record is and as the
\* memset of GEOD_init leaves it. f is FLAT (ONEF = 1 - f). K is what geod_pre
\* stores (lines 36-37): th1, from which costh1 and sinth1 come; al12, the
\* azimuth from which together with th1 come sina12, cosa12, M, N, c1, c2, D,
\* P and s1; and the flags merid and signS
ZeroGeodesic ==
    [A |-> 0, f |-> 0, ELLIPSE |-> FALSE,
     p1 |-> [u |-> 0, v |-> 0], p2 |-> [u |-> 0, v |-> 0],
     ALPHA12 |-> 0, ALPHA21 |-> 0, DIST |-> 0,
     del_alpha |-> 0, n_alpha |-> 0, n_S |-> 0,
     K |-> [th1 |-> 0, al12 |-> 0, merid |-> FALSE, signS |-> FALSE]]

\* geod.c 12-16, 42, 55, 135: the flags inverse and pos_azi, the number eargc
\* of input files, the locals az of do_arc and phil, laml, del_S of do_geod;
\* mode is the branch main took and entry the record as it was then; emitted
\* is the output so far, a record for each printLL line: the point, the
\* ALPHA12, DIST and p1 of the record then, and the calls made since the line
\* before; log is the calls made since the last line
NoRun ==
    [inverse |-> FALSE, pos_azi |-> FALSE, eargc |-> 0,
     az |-> 0, phil |-> 0, laml |-> 0, del_S |-> 0,
     mode |-> "none", entry |-> ZeroGeodesic, emitted |-> <<>>, log |-> <<>>]

\* one more loop-body execution, counted up to MaxBody
\* math.h HUGE_VAL, the value proj_inv.c 46 compares with: beyond every
\* coordinate of the model
HUGE_VAL == 1000

\* no call of proj_inv is running
NoInv ==
    [pc |-> "off", x |-> 0, y |-> 0, x0 |-> 0, y0 |-> 0, netlam0 |-> 0, over |-> FALSE,
     xy |-> [x |-> 0, y |-> 0], lp |-> [lam |-> 0, phi |-> 0],
     proj_errno |-> 0, errno |-> 0, invoked |-> 0]

Count(n) == IF n < MaxBody THEN n + 1 ELSE n

\* ---------------------------------------------------------------- callers

\* what the caller's record holds in its unknown fields before the call
Leftover == {M_PI_2 + 1}

EllipsSet == {Ellips(a, f) : a \in 1..MaxA, f \in {0, 2}}

DirectPt1 == {Point(l, M_PI_2 - 2) : l \in {0, M_PI - 1, -M_PI, MaxTurns * M_PI}}

DirectAz == {0, M_PI_2, M_PI + 5, -MaxTurns * M_PI + 1}

DirectS == {-1, 0, M_PI_2, MaxTurns * TWOPI}

\* the caller fills in the known fields of the direct problem
SetDirect ==
    /\ pc = "idle"
    /\ \E p1 \in DirectPt1 \cup {NullPoint}, az \in DirectAz, s \in DirectS,
          e \in EllipsSet \cup {NullEllips}, g \in Leftover :
          line' = Line(p1, az, Point(g, g), g, s, e)
    /\ pc' = "direct"
    /\ UNCHANGED <<old, top, loc, wr, calls, ret, unitS, path>>
    /\ UNCHANGED bench_vars
    /\ UNCHANGED <<geod_vars, inv_vars>>
    /\ UNCHANGED conc_vars
    /\ UNCHANGED pair_vars

InversePhi == {0, 1, TOL2 - 3, TOL2 + 2, -(TOL2 + 2), M_PI_2}

InverseLam2 == {0, 1, M_PI_2, M_PI - 2, M_PI, TWOPI + M_PI_2, -(M_PI + M_PI_2)}

\* the caller fills in the known fields of the inverse problem
SetInverse ==
    /\ pc = "idle"
    /\ \E p1 \in {0, TOL2 - 3, TOL2 + 2}, l2 \in InverseLam2,
          p2 \in InversePhi, e \in EllipsSet, g \in Leftover :
          line' = Line(Point(0, p1), g, Point(l2, p2), g, g, e)
    /\ pc' = "inverse"
    /\ UNCHANGED <<old, top, loc, wr, calls, ret, unitS, path>>
    /\ UNCHANGED bench_vars
    /\ UNCHANGED <<geod_vars, inv_vars>>
    /\ UNCHANGED conc_vars
    /\ UNCHANGED pair_vars

\* the caller reads the results and discards the record
Release ==
    /\ pc = "done"
    /\ pc' = "idle"
    /\ line' = FreshLine
    /\ old' = FreshLine
    /\ top' = "none"
    /\ loc' = NoLocals
    /\ wr' = {}
    /\ calls' = NoCalls
    /\ ret' = {}
    /\ unitS' = 0
    /\ path' = "none"
    /\ first' = NoFirst
    /\ UNCHANGED bench_vars
    /\ UNCHANGED <<geod_vars, inv_vars>>
    /\ UNCHANGED conc_vars

\* the bookkeeping of a call that starts: the line as passed, nothing assigned
\* the inverse solver of each direct solver's family
inverse_of(fn) ==
    CASE fn = "proj_sp_fwd" -> "proj_sp_inv"
      [] fn = "proj_in_fwd" -> "proj_in_inv"
      [] fn = "proj_pt_fwd" -> "proj_pt_inv"
      [] OTHER -> "none"

Enter(fn) ==
    /\ first.kind = "swap" => first.top = fn
    /\ first.kind = "trip" => inverse_of(first.top) = fn
    /\ top' = fn
    /\ old' = line
    /\ calls' = NoCalls

\* ---------------------------------------------------------------- proj_sp_fwd

\* proj_sp_fwd.c 57-65, with phi2 = asin(..), dlam = atan2(..), back = atan2(..):
\*   A->pt2->phi = phi2;  A->pt2->lam = A->pt1->lam + dlam;  A->az21 = back;
\*   if (fabs(A->pt2->lam) > M_PI) A->pt2->lam -= copysign(2.*M_PI, A->pt2->lam);
sp_fwd_result(A, phi2, dlam, back) ==
    LET lam2 == A.pt1.lam + dlam
        lamw == IF Abs(lam2) > M_PI THEN lam2 - copysign(TWOPI, lam2) ELSE lam2
    IN  [A EXCEPT !.pt2.phi = phi2, !.pt2.lam = lamw, !.az21 = back]

\* the body of proj_sp_fwd: one straight run
sp_fwd_run ==
    /\ \E phi2 \in asin_range, dlam \in atan2_range, back \in azimuth_range :
          line' = sp_fwd_result(line, phi2, dlam, back)
    /\ wr' = {"pt2.phi", "pt2.lam", "az21"}
    /\ pc' = "done"
    /\ path' = "sp_fwd"
    /\ UNCHANGED <<loc, unitS>>

proj_sp_fwd ==
    /\ pc = "direct"
    /\ ~line.pt1.nil
    /\ ~line.E.nil
    /\ Enter("proj_sp_fwd")
    /\ sp_fwd_run
    /\ UNCHANGED ret
    /\ UNCHANGED bench_vars
    /\ UNCHANGED <<geod_vars, inv_vars>>
    /\ UNCHANGED conc_vars
    /\ UNCHANGED pair_vars

\* ---------------------------------------------------------------- proj_in_fwd

\* A->S / A->E->a / r / c: the angular distance the iteration starts from
in_fwd_tu(A) == A.S \div A.E.a

\* the iterates the loop body can produce: tu plus a correction of the order
\* of f.  Two successive iterates agree to within EPS or differ by more: the
\* doubles next to a y of large magnitude are further than EPS apart
in_fwd_iterates(tu) == {tu - EPS - 1, tu - 1, tu, tu + EPS}

\* proj_in_fwd.c 52-69: A->az21 = 0.0; if (cf != 0.0) A->az21 = atan2(tu, cf) * 2.0;
\* ... y = tu;
in_fwd_begin ==
    /\ \E t \in asin_range : line' = [line EXCEPT !.az21 = 2 * t]
    /\ loc' = [NoLocals EXCEPT !.tu = in_fwd_tu(line), !.y = in_fwd_tu(line)]
    /\ wr' = {"az21"}
    /\ pc' = "in_fwd_loop"
    /\ path' = "in_fwd"
    /\ UNCHANGED unitS

\* the loop test of proj_in_fwd.c 80: while (fabs(y - c) > EPS)
in_fwd_again(y, c) == Abs(y - c) > EPS

\* proj_in_fwd.c 70-80: one execution of the body of do { c = y; y = ..; }
\* and the test that follows it
proj_in_fwd_loop ==
    /\ pc = "in_fwd_loop"
    /\ \E y \in in_fwd_iterates(loc.tu) :
          /\ loc' = [loc EXCEPT !.y = y]
          /\ pc' = IF in_fwd_again(y, loc.y) THEN "in_fwd_loop" ELSE "in_fwd_end"
    /\ UNCHANGED <<line, old, top, wr, calls, ret, unitS, path>>
    /\ UNCHANGED bench_vars
    /\ UNCHANGED <<geod_vars, inv_vars>>
    /\ UNCHANGED conc_vars
    /\ UNCHANGED pair_vars

\* proj_in_fwd with A->pt2->lam += x - ..: the longitude the record holds is
\* advanced, not that of pt1
in_fwd_result_stale(A, phi2, x, corr, back) ==
    [A EXCEPT !.pt2.phi = phi2,
              !.pt2.lam = A.pt2.lam + x - corr,
              !.az12 = proj_adjlon(A.az12),
              !.az21 = proj_adjlon(back + M_PI)]

\* proj_in_fwd.c 81-89, with phi2 = atan2(.., r*hypot(..)), x = atan2(..),
\* corr = (1.0 - c) * d * flat and back = atan2(sa, A->az21):
\*   A->az21 = ..; A->pt2->phi = phi2; A->pt2->lam = A->pt1->lam + x - corr;
\*   A->az21 = back + M_PI;
\*   A->az12 = proj_adjlon(A->az12);  A->az21 = proj_adjlon(A->az21);
in_fwd_result(A, phi2, x, corr, back) ==
    [A EXCEPT !.pt2.phi = phi2,
              !.pt2.lam = A.pt1.lam + x - corr,
              !.az12 = proj_adjlon(A.az12),
              !.az21 = proj_adjlon(back + M_PI)]

proj_in_fwd_end ==
    /\ pc = "in_fwd_end"
    /\ \E phi2 \in lat_range, x \in azimuth_range, corr \in {0, line.E.f},
          back \in azimuth_range :
          line' = in_fwd_result(line, phi2, x, corr, back)
    /\ wr' = wr \cup {"pt2.phi", "pt2.lam", "az12", "az21"}
    /\ pc' = "done"
    /\ ret' = IF top = "proj_gforward" THEN {0} ELSE ret
    /\ loc' = NoLocals
    /\ UNCHANGED <<old, top, calls, unitS, path>>
    /\ UNCHANGED bench_vars
    /\ UNCHANGED <<geod_vars, inv_vars>>
    /\ UNCHANGED conc_vars
    /\ UNCHANGED pair_vars

proj_in_fwd ==
    /\ pc = "direct"
    /\ ~line.pt1.nil
    /\ ~line.E.nil
    /\ Enter("proj_in_fwd")
    /\ in_fwd_begin
    /\ UNCHANGED ret
    /\ UNCHANGED bench_vars
    /\ UNCHANGED <<geod_vars, inv_vars>>
    /\ UNCHANGED conc_vars
    /\ UNCHANGED pair_vars

\* ---------------------------------------------------------------- proj_pt_fwd

\* proj_pt_fwd.c 52-57: al12 = proj_adjlon(Arc->az12);
\*   merid = fabs(sina12 = sin(al12)) < MERI_TOL
pt_fwd_merid(A) == sin_below(proj_adjlon(A.az12), MERI_TOL)

\* proj_pt_fwd.c 53: signS = fabs(al12) > M_PI_2 ? 1 : 0
pt_fwd_signS(A) == Abs(proj_adjlon(A.az12)) > M_PI_2

\* proj_pt_fwd.c 98-115, the meridian case, with pos = (al21 > 0.): al21 and
\* phi2 are locals; only de reaches the line, through line 131
pt_fwd_merid_result(A, pos) ==
    LET de == IF pos = pt_fwd_signS(A) THEN M_PI ELSE 0
    IN  [A EXCEPT !.pt2.lam = proj_adjlon(A.pt1.lam + de)]

\* proj_pt_fwd.c 116-131, the general case, with at = atan(M / al21),
\* phi2 = atan(..), de0 = atan2(..) and corr = c1 * (..):
\*   if (al21 > 0.) al21 += M_PI;  if (al12 < 0.) al21 -= M_PI;
\*   Arc->az21 = proj_adjlon(al21);  Arc->pt2->phi = phi2;
\*   de = de0 +/- corr;  Arc->pt2->lam = proj_adjlon(Arc->pt1->lam + de);
pt_fwd_general_result(A, at, phi2, de0, corr) ==
    LET al12 == proj_adjlon(A.az12)
        a1 == IF at > 0 THEN at + M_PI ELSE at
        al21 == IF al12 < 0 THEN a1 - M_PI ELSE a1
        de == IF pt_fwd_signS(A) THEN de0 + corr ELSE de0 - corr
    IN  [A EXCEPT !.az21 = proj_adjlon(al21),
                  !.pt2.phi = phi2,
                  !.pt2.lam = proj_adjlon(A.pt1.lam + de)]

proj_pt_fwd ==
    /\ pc = "direct"
    /\ ~line.pt1.nil
    /\ ~line.E.nil
    /\ Enter("proj_pt_fwd")
    /\ IF pt_fwd_merid(line)
       THEN /\ \E pos \in BOOLEAN : line' = pt_fwd_merid_result(line, pos)
            /\ wr' = {"pt2.lam"}
            /\ path' = "pt_fwd_meridian"
       ELSE /\ \E at \in asin_range, phi2 \in asin_range, de0 \in atan2_range,
                  corr \in {0, line.E.f} :
                  line' = pt_fwd_general_result(line, at, phi2, de0, corr)
            /\ wr' = {"az21", "pt2.phi", "pt2.lam"}
            /\ path' = "pt_fwd_general"
    /\ pc' = "done"
    /\ UNCHANGED <<loc, ret, unitS>>
    /\ UNCHANGED bench_vars
    /\ UNCHANGED <<geod_vars, inv_vars>>
    /\ UNCHANGED conc_vars
    /\ UNCHANGED pair_vars

\* ---------------------------------------------------------------- proj_gforward

\* proj_gforward.c 43: if (A->pt1 == NULL || A->S <= 0 || A->E == NULL) return 1;
gforward_invalid(A) == A.pt1.nil \/ A.S <= 0 \/ A.E.nil

\* the dispatch of proj_gforward with its test inverted
gforward_ellipsoid_swapped(E) == E.f = 0

\* proj_gforward.c 45: if (A->E->f) -- ellipsoid earth
gforward_ellipsoid(E) == E.f # 0

\* proj_gforward.c 41-50
proj_gforward ==
    /\ pc = "direct"
    /\ top' = "proj_gforward"
    /\ old' = line
    /\ IF gforward_invalid(line)
       THEN /\ ret' = {1}
            /\ pc' = "done"
            /\ calls' = NoCalls
            /\ wr' = {}
            /\ path' = "invalid"
            /\ UNCHANGED <<line, loc, unitS>>
       ELSE IF gforward_ellipsoid(line.E)
       THEN /\ calls' = [NoCalls EXCEPT !.in_fwd = 1]
            /\ in_fwd_begin
            /\ UNCHANGED ret
       ELSE /\ calls' = [NoCalls EXCEPT !.sp_fwd = 1]
            /\ sp_fwd_run
            /\ ret' = {0}
    /\ UNCHANGED bench_vars
    /\ UNCHANGED <<geod_vars, inv_vars>>
    /\ UNCHANGED conc_vars
    /\ UNCHANGED pair_vars

\* ---------------------------------------------------------------- paired solves

\* the distance on the unit sphere or ellipsoid between two points that are
\* not the same point: a value in (0, pi]
dist_range == {M_PI_2, M_PI}

\* two angles that differ by whole turns
congruent(a, b) == (a - b) % TWOPI = 0

\* The libm values of a solve whose points are those of the solve before.
\* Exchanged points ("swap"): sin, cos and atan2 see the same two points, so
\* the arc on the unit ellipsoid is the same and the two atan2 directions are
\* the exchanged ones.  The points of a direct solve ("trip"): the arc is the
\* S / a the direct solve went, the directions are the azimuth it was given
\* and the back azimuth it found.  What the code does with these values, and
\* every result it sets without them, is computed by the solver.
mirror_dist(u) ==
    /\ first.kind = "swap" => u = first.unitS
    /\ first.kind = "trip" => u = first.old.S \div first.old.E.a

mirror_az(L) ==
    /\ first.kind = "swap" =>
           /\ congruent(L.az12, first.line.az21)
           /\ congruent(L.az21, first.line.az12)
    /\ first.kind = "trip" =>
           /\ congruent(L.az12, first.old.az12)
           /\ congruent(L.az21, first.line.az21)

\* the values the distance and the atan2 of an inverse solver are drawn from
dist_values ==
    IF first.kind = "trip" THEN {first.old.S \div first.old.E.a} ELSE dist_range

az_values == IF first.kind = "none" THEN azimuth_range ELSE atan2_range

\* ---------------------------------------------------------------- proj_sp_inv

\* pt1 and pt2 hold the same coordinates
same_point(A) == A.pt1.lam = A.pt2.lam /\ A.pt1.phi = A.pt2.phi

\* proj_sp_inv.c 70: 2. * asin(sqrt(shp * shp + c0 * c1 * shl * shl)), which
\* is 0 for equal coordinates (shp = shl = 0)
sp_inv_dist(A) == IF same_point(A) THEN {0} ELSE dist_values

\* proj_sp_inv.c 82-86: the atan2 of the azimuths; atan2(0, 0) = 0
sp_inv_atan2(A) == IF same_point(A) THEN {0} ELSE az_values

raise_turn_never(az) == az

\* a negative azimuth is raised by a full turn: if (az < 0.) az += 2.*M_PI
raise_turn(az) == IF az < 0 THEN az + TWOPI ELSE az

\* proj_sp_inv.c 70-90, with u = 2 asin(..), t12 and t21 the two atan2:
\*   A->S = A->E->a * u;
\*   A->az12 = t12;   if (A->az12 < 0.) A->az12 += 2.*M_PI;
\*   A->az21 = -t21;  if (A->az21 < 0.) A->az21 += 2.*M_PI;
\*   A->az12 = proj_adjlon(A->az12);  A->az21 = proj_adjlon(A->az21);
sp_inv_result(A, u, t12, t21) ==
    [A EXCEPT !.S = A.E.a * u,
              !.az12 = proj_adjlon(raise_turn(t12)),
              !.az21 = proj_adjlon(raise_turn(-t21))]

\* the body of proj_sp_inv: one straight run
sp_inv_run ==
    /\ \E u \in sp_inv_dist(line), t12 \in sp_inv_atan2(line),
          t21 \in sp_inv_atan2(line) :
          /\ line' = sp_inv_result(line, u, t12, t21)
          /\ unitS' = u
          /\ same_point(line) \/ (mirror_dist(u) /\ mirror_az(line'))
    /\ wr' = {"S", "az12", "az21"}
    /\ pc' = "done"
    /\ path' = "sp_inv"
    /\ UNCHANGED loc

proj_sp_inv ==
    /\ pc = "inverse"
    /\ Enter("proj_sp_inv")
    /\ sp_inv_run
    /\ UNCHANGED ret
    /\ UNCHANGED bench_vars
    /\ UNCHANGED <<geod_vars, inv_vars>>
    /\ UNCHANGED conc_vars
    /\ UNCHANGED pair_vars

\* ---------------------------------------------------------------- proj_pt_inv

\* proj_pt_inv.c 53-58: dthm = .5 * (th2 - th1) of the reduced latitudes,
\*   dlam = proj_adjlon(pt2->lam - pt1->lam);
\*   if (fabs(dlam) < DTOL && fabs(dthm) < DTOL)        -- pt1 == pt2
pt_inv_coincident(A) ==
    LET th1 == reduced_lat(A.E.f, A.pt1.phi)
        th2 == reduced_lat(A.E.f, A.pt2.phi)
        dlam == proj_adjlon(A.pt2.lam - A.pt1.lam)
    IN  Abs(dlam) < DTOL /\ Abs(th2 - th1) < 2 * DTOL

\* proj_pt_inv.c 59: Arc->az12 = Arc->az21 = Arc->S = 0.
zero_line(A) == [A EXCEPT !.az12 = 0, !.az21 = 0, !.S = 0]

\* proj_pt_inv.c 82-91, with d = sind * (T - ..) and u, v the two atan2:
\*   Arc->S = d;
\*   Arc->az12 = proj_adjlon((2 * M_PI) + v - u);
\*   Arc->az21 = proj_adjlon((2 * M_PI) - v - u);
pt_inv_result(A, d, u, v) ==
    [A EXCEPT !.S = d,
              !.az12 = proj_adjlon(TWOPI + v - u),
              !.az21 = proj_adjlon(TWOPI - v - u)]

\* the body of proj_pt_inv: one straight run
pt_inv_run ==
    /\ IF pt_inv_coincident(line)
       THEN /\ line' = zero_line(line)
            /\ unitS' = 0
            /\ path' = "pt_inv_coincident"
       ELSE /\ \E d \in dist_values, u \in az_values, v \in az_values :
                  /\ line' = pt_inv_result(line, d, u, v)
                  /\ unitS' = d
                  /\ mirror_dist(d)
                  /\ mirror_az(line')
            /\ path' = "pt_inv"
    /\ wr' = {"S", "az12", "az21"}
    /\ pc' = "done"
    /\ UNCHANGED loc

proj_pt_inv ==
    /\ pc = "inverse"
    /\ Enter("proj_pt_inv")
    /\ pt_inv_run
    /\ UNCHANGED ret
    /\ UNCHANGED bench_vars
    /\ UNCHANGED <<geod_vars, inv_vars>>
    /\ UNCHANGED conc_vars
    /\ UNCHANGED pair_vars

\* ---------------------------------------------------------------- proj_in_inv

\* merid_arc (proj_in_inv.c 44-95): (1. - esq) * (s1 + s2) with s1 = da * a,
\* da = phi2 - phi1 and a = 1 + .75 e2 + ..; the terms of the series beyond
\* the first order in e2 (and s2, which is of order e2) are below the grid
merid_arc(esq, phi1, phi2) ==
    LET da == phi2 - phi1
        a == ONE + (3 * esq) \div 4
    IN  Sgn(da) * (((ONE - esq) * a * Abs(da)) \div (ONE * ONE))

\* proj_in_inv.c 238: if (fabs(ss) < TOL1), ss = pt2->lam - pt1->lam
in_inv_meridional(A) == Abs(A.pt2.lam - A.pt1.lam) < TOL1

\* the meridional branch with the two azimuth assignments exchanged
in_inv_meridional_result_swapped(A) ==
    LET arc == merid_arc(A.E.es, A.pt1.phi, A.pt2.phi)
    IN  [A EXCEPT !.S = A.E.a * Abs(arc),
                  !.az12 = IF A.pt2.phi > A.pt1.phi THEN M_PI ELSE 0,
                  !.az21 = IF A.pt2.phi > A.pt1.phi THEN 0 ELSE M_PI]

\* proj_in_inv.c 239-250
in_inv_meridional_result(A) ==
    LET arc == merid_arc(A.E.es, A.pt1.phi, A.pt2.phi)
    IN  [A EXCEPT !.S = A.E.a * Abs(arc),
                  !.az12 = IF A.pt2.phi > A.pt1.phi THEN 0 ELSE M_PI,
                  !.az21 = IF A.pt2.phi > A.pt1.phi THEN M_PI ELSE 0]

\* proj_in_inv.c 253-262: test for longitude over 180 degrees
in_inv_dlon(A) ==
    LET dlon == A.pt2.lam - A.pt1.lam
    IN  IF dlon >= 0
        THEN IF M_PI <= dlon /\ dlon < TWOPI THEN dlon - TWOPI ELSE dlon
        ELSE IF M_PI <= Abs(dlon) /\ Abs(dlon) < TWOPI THEN dlon + TWOPI ELSE dlon

\* proj_in_inv.c 263-265: ss = fabs(dlon); if (ss > M_PI) ss = (2. * M_PI) - ss;
in_inv_ss(A) ==
    LET ss == Abs(in_inv_dlon(A))
    IN  IF ss > M_PI THEN TWOPI - ss ELSE ss

\* proj_in_inv.c 269: alimit = M_PI * (1. - f)
in_inv_alimit(E) == (M_PI * (ONE - E.f)) \div ONE

\* the test for anti-nodal difference without the two tests that keep out a
\* line with one end on the equator and the other far from it
in_inv_antinodal_loose(A) ==
    LET r1 == Abs(A.pt1.phi)
        r2 == Abs(A.pt2.phi)
    IN  /\ in_inv_ss(A) >= in_inv_alimit(A.E)
        /\ ~(r1 > TOL2 /\ r2 > TOL2)

\* proj_in_inv.c 271-278: the test for anti-nodal difference and the three
\* latitude tests that let the line into the anti-nodal block
in_inv_antinodal(A) ==
    LET r1 == Abs(A.pt1.phi)
        r2 == Abs(A.pt2.phi)
    IN  /\ in_inv_ss(A) >= in_inv_alimit(A.E)
        /\ ~(r1 > TOL2 /\ r2 > TOL2)
        /\ ~(r1 < TOL1 /\ r2 > TOL2)
        /\ ~(r2 < TOL1 /\ r1 > TOL2)

\* the test of line 280 with >= for >
in_inv_off_equator_closed(A) ==
    Abs(A.pt1.phi) >= TOL1 \/ Abs(A.pt2.phi) >= TOL1

\* proj_in_inv.c 280: if (r1 > TOL1 || r2 > TOL1)
in_inv_off_equator(A) == Abs(A.pt1.phi) > TOL1 \/ Abs(A.pt2.phi) > TOL1

\* the return path proj_in_inv takes, lines 238-293
in_inv_case(A) ==
    IF in_inv_meridional(A) THEN "meridional"
    ELSE IF in_inv_antinodal(A)
         THEN IF in_inv_off_equator(A) THEN "zero_line" ELSE "antipodal"
         ELSE "general"

\* asin(cons), asin(cs) of func_loa: azimuths in [0, pi/2]
loa_az_range == {0, M_PI_2}

\* the correction sinalf * (ao * sig + ..) of the general loop, of order f
in_inv_corr(E) == 0..E.f

\* the entry of proj_in_inv up to its first loop or return
in_inv_begin ==
    /\ IF in_inv_case(line) = "meridional"
       THEN /\ line' = in_inv_meridional_result(line)
            /\ unitS' = Abs(merid_arc(line.E.es, line.pt1.phi, line.pt2.phi))
            /\ wr' = {"S", "az12", "az21"}
            /\ pc' = "done"
            /\ loc' = NoLocals
       ELSE IF in_inv_case(line) = "zero_line"
       THEN \* proj_in_inv.c 281-284
            /\ line' = zero_line(line)
            /\ unitS' = 0
            /\ wr' = {"S", "az12", "az21"}
            /\ pc' = "done"
            /\ loc' = NoLocals
       ELSE IF in_inv_case(line) = "antipodal"
       THEN \* func_loa 130-138, called with dlam = dlon: az = asin(cons); iter = 0
            /\ \E az \in loa_az_range :
                  loc' = [NoLocals EXCEPT !.dlon = in_inv_dlon(line), !.az = az]
            /\ pc' = "loa_loop"
            /\ wr' = {}
            /\ UNCHANGED <<line, unitS>>
       ELSE \* proj_in_inv.c 301-312: dlon = pt2->lam - pt1->lam; ab = dlon; kount = 0
            /\ loc' = [NoLocals EXCEPT !.dlon = line.pt2.lam - line.pt1.lam,
                                       !.ab = line.pt2.lam - line.pt1.lam]
            /\ pc' = "in_inv_loop"
            /\ wr' = {}
            /\ UNCHANGED <<line, unitS>>
    /\ path' = in_inv_case(line)

proj_in_inv ==
    /\ pc = "inverse"
    /\ Enter("proj_in_inv")
    /\ in_inv_begin
    /\ UNCHANGED ret
    /\ UNCHANGED bench_vars
    /\ UNCHANGED <<geod_vars, inv_vars>>
    /\ UNCHANGED conc_vars
    /\ UNCHANGED pair_vars

\* func_loa 146: if (fabs(s - az) < TT) break;
loa_converged(s, az) == Abs(s - az) < TT

loa_again_late(iter) == iter + 1 <= ITER_MAX + 1

\* func_loa 149: while (++iter <= 6)
loa_again(iter) == iter + 1 <= ITER_MAX

\* func_loa 139-149: one execution of the body of the loop
func_loa_loop ==
    /\ pc = "loa_loop"
    /\ \E s \in loa_az_range :
          IF loa_converged(s, loc.az)
          THEN /\ loc' = [loc EXCEPT !.s = s, !.n = Count(loc.n)]
               /\ pc' = "loa_end"
          ELSE /\ loc' = [loc EXCEPT !.s = s, !.az = s, !.iter = loc.iter + 1,
                                     !.n = Count(loc.n)]
               /\ pc' = IF loa_again(loc.iter) THEN "loa_loop" ELSE "loa_end"
    /\ UNCHANGED <<line, old, top, wr, calls, ret, unitS, path>>
    /\ UNCHANGED bench_vars
    /\ UNCHANGED <<geod_vars, inv_vars>>
    /\ UNCHANGED conc_vars
    /\ UNCHANGED pair_vars

\* func_loa 150-153: az12 = s; if (dlam < 0.) az12 = M_PI * 2. - az12;
\*   *az21 = M_PI * 2. - az12;       -- az12 is func_loa's own parameter
loa_az21(s, dlam) ==
    LET az12 == IF dlam < 0 THEN TWOPI - s ELSE s
    IN  TWOPI - az12

\* func_loa 154-168 and proj_in_inv.c 287-291, with sms from func_loa:
\*   func_loa(f, esq, dlon, A->az12, &(A->az21), &aa, &bb, &sms);
\*   equ = fabs(dlon);  A->S = equ - sms;  return;
in_inv_antipodal_result(A, s, dlon, sms) ==
    [A EXCEPT !.az21 = loa_az21(s, dlon),
              !.S = Abs(dlon) - sms]

func_loa_end ==
    /\ pc = "loa_end"
    /\ \E sms \in {0, line.E.f} :
          /\ line' = in_inv_antipodal_result(line, loc.s, loc.dlon, sms)
          /\ unitS' = Abs(loc.dlon) - sms
          /\ mirror_dist(Abs(loc.dlon) - sms)
          /\ first.kind = "swap" => loc.s = first.s
    /\ wr' = wr \cup {"az21", "S"}
    /\ pc' = "done"
    /\ UNCHANGED <<old, top, loc, calls, ret, path>>
    /\ UNCHANGED bench_vars
    /\ UNCHANGED <<geod_vars, inv_vars>>
    /\ UNCHANGED conc_vars
    /\ UNCHANGED pair_vars

in_inv_again_late(xy, kount) == xy >= LOOP_TOL /\ kount + 1 <= KOUNT_MAX + 1

\* proj_in_inv.c 346: while (xy >= 5e-14 && ++kount <= 7); kount is
\* incremented only when the first test holds
in_inv_again(xy, kount) == xy >= LOOP_TOL /\ kount + 1 <= KOUNT_MAX

\* proj_in_inv.c 313-346: one execution of the body of the general loop:
\*   A->S = sinalf * (..);  xz = dlon + A->S;  xy = fabs(xz - ab);  ab = dlon + A->S;
proj_in_inv_loop ==
    /\ pc = "in_inv_loop"
    /\ \E c \in in_inv_corr(line.E) :
          LET xz == loc.dlon + c
              xy == Abs(xz - loc.ab)
          IN  /\ line' = [line EXCEPT !.S = c]
              /\ loc' = [loc EXCEPT !.ab = xz,
                                    !.kount = IF xy >= LOOP_TOL THEN loc.kount + 1
                                                                ELSE loc.kount,
                                    !.n = Count(loc.n)]
              /\ pc' = IF in_inv_again(xy, loc.kount) THEN "in_inv_loop"
                                                      ELSE "in_inv_end"
    /\ wr' = wr \cup {"S"}
    /\ UNCHANGED <<old, top, calls, ret, unitS, path>>
    /\ UNCHANGED bench_vars
    /\ UNCHANGED <<geod_vars, inv_vars>>
    /\ UNCHANGED conc_vars
    /\ UNCHANGED pair_vars

in_inv_equator_az12_unwrapped(dlon0) ==
    IF dlon0 < 0 THEN 3 * M_PI_2 ELSE M_PI_2

\* proj_in_inv.c 357-366: the azimuths along the equator
\*   if (dlon > M_PI) dlon -= M_PI * 2.;  if (fabs(dlon) > M_PI) dlon += M_PI * 2.;
\*   A->az12 = M_PI / 2.;  if (dlon < 0.) A->az12 *= 3.;
\*   A->az21 = A->az12 + M_PI;  if (A->az21 > M_PI * 2.) A->az21 -= M_PI * 2.;
in_inv_equator_az12(dlon0) ==
    LET d1 == IF dlon0 > M_PI THEN dlon0 - TWOPI ELSE dlon0
        d2 == IF Abs(d1) > M_PI THEN d1 + TWOPI ELSE d1
    IN  IF d2 < 0 THEN 3 * M_PI_2 ELSE M_PI_2

in_inv_equator_az21(az12) ==
    IF az12 + M_PI > TWOPI THEN az12 + M_PI - TWOPI ELSE az12 + M_PI

\* proj_in_inv.c 368: if (!(fabs(su1) < TOL0 && fabs(su2) < TOL0)), su = sin of
\* the reduced latitude
in_inv_on_equator(A) ==
    /\ Abs(reduced_lat(A.E.f, A.pt1.phi)) < TOL0
    /\ Abs(reduced_lat(A.E.f, A.pt2.phi)) < TOL0

\* proj_in_inv.c 347-381, with u = b * (bo * sig + ..) and t1, t2 the atan2:
\*   A->S = A->E->a * u;  the azimuths along the equator, or else
\*   A->az12 = t1;  A->az21 = M_PI - t2;
\*   if (A->az12 < 0.) A->az12 += (2. * M_PI);  the same for A->az21
in_inv_general_result(A, dlon, u, t1, t2) ==
    LET e12 == in_inv_equator_az12(dlon)
        a12 == IF in_inv_on_equator(A) THEN e12 ELSE t1
        a21 == IF in_inv_on_equator(A) THEN in_inv_equator_az21(e12) ELSE M_PI - t2
    IN  [A EXCEPT !.S = A.E.a * u,
                  !.az12 = raise_turn(a12),
                  !.az21 = raise_turn(a21)]

proj_in_inv_end ==
    /\ pc = "in_inv_end"
    /\ \E u \in dist_values, t1 \in az_values, t2 \in az_values :
          /\ line' = in_inv_general_result(line, loc.dlon, u, t1, t2)
          /\ unitS' = u
          /\ mirror_dist(u)
          /\ in_inv_on_equator(line) \/ mirror_az(line')
    /\ wr' = wr \cup {"S", "az12", "az21"}
    /\ pc' = "done"
    /\ loc' = [NoLocals EXCEPT !.kount = loc.kount, !.n = loc.n]
    /\ UNCHANGED <<old, top, calls, ret, path>>
    /\ UNCHANGED bench_vars
    /\ UNCHANGED <<geod_vars, inv_vars>>
    /\ UNCHANGED conc_vars
    /\ UNCHANGED pair_vars

\* ---------------------------------------------------------------- geod_inv

\* PROJ.4's adjlon, which geod_inv.c calls: the angle normaliser, computed
\* as the scaled-floor reduction with its tolerance band
adjlon(lon) ==
    LET x == lon
    IN  IF Abs(x) - ONE > 3 * DBL_EPSILON
        THEN FracPart(x + ONE, 2 * ONE) - ONE
        ELSE lon

\* geod_inv works on a GEODESIC_T; the model holds it in the line record:
\* p1, p2 (u = phi, v = lam) are pt1, pt2; ALPHA12, ALPHA21, DIST are az12,
\* az21, S; A is E.a; ELLIPSE is es != 0 and ONEF is 1 - f (geod_set.c 45-47).
\* geod_inv.c 11-21: th1, th2 reduced when ELLIPSE, else the latitudes;
\*   if (fabs(dlam) < DTOL && fabs(dthm) < DTOL)
geod_inv_coincident(G) ==
    LET th1 == IF G.E.es # 0 THEN reduced_lat(G.E.f, G.pt1.phi) ELSE G.pt1.phi
        th2 == IF G.E.es # 0 THEN reduced_lat(G.E.f, G.pt2.phi) ELSE G.pt2.phi
        dlam == adjlon(G.pt2.lam - G.pt1.lam)
    IN  Abs(dlam) < DTOL /\ Abs(th2 - th1) < 2 * DTOL

\* geod_inv.c 31-57, with d = sind * (T - ..) or the arc d, and u, v the atan2:
\*   GEODESIC->DIST = GEODESIC->A * d;
\*   GEODESIC->ALPHA12 = adjlon(TWOPI + v - u);
\*   GEODESIC->ALPHA21 = adjlon(TWOPI - v - u);
geod_inv_result(G, d, u, v) ==
    [G EXCEPT !.S = G.E.a * d,
              !.az12 = adjlon(TWOPI + v - u),
              !.az21 = adjlon(TWOPI - v - u)]

geod_inv ==
    /\ pc = "inverse"
    /\ Enter("geod_inv")
    /\ IF geod_inv_coincident(line)
       THEN \* geod_inv.c 22-23: ALPHA12 = ALPHA21 = DIST = 0.; return -1;
            /\ line' = zero_line(line)
            /\ unitS' = 0
            /\ ret' = {-1}
            /\ path' = "geod_inv_coincident"
       ELSE /\ \E d \in dist_values, u \in az_values, v \in az_values :
                  /\ line' = geod_inv_result(line, d, u, v)
                  /\ unitS' = d
                  /\ mirror_dist(d)
                  /\ mirror_az(line')
            /\ ret' = {0}
            /\ path' = "geod_inv"
    /\ wr' = {"S", "az12", "az21"}
    /\ pc' = "done"
    /\ UNCHANGED loc
    /\ UNCHANGED bench_vars
    /\ UNCHANGED <<geod_vars, inv_vars>>
    /\ UNCHANGED conc_vars
    /\ UNCHANGED pair_vars

\* ---------------------------------------------------------------- proj_ginverse

\* project.h 255 declares int proj_ginverse(PROJ_LINE *); the library holds
\* no definition of it.  The dispatcher is the one of the specification:
\* spherical when the flattening is zero, else the closed-form solver for a
\* near-antipodal pair of points and the iterative solver for any other.

\* the dispatch of proj_ginverse with its test inverted
ginverse_ellipsoid_swapped(E) == E.f = 0

\* the flattening is not zero: ellipsoid earth
ginverse_ellipsoid(E) == E.f # 0

\* near-antipodal detection on the two input points: the longitudes differ
\* by the antipodal limit pi (1 - f) or more and the latitudes are opposite
\* to within TOL2
ginverse_near_antipodal(A) ==
    /\ in_inv_ss(A) >= in_inv_alimit(A.E)
    /\ Abs(A.pt1.phi + A.pt2.phi) <= TOL2

proj_ginverse ==
    /\ pc = "inverse"
    /\ first.kind = "none"
    /\ top' = "proj_ginverse"
    /\ old' = line
    /\ IF ~ginverse_ellipsoid(line.E)
       THEN /\ calls' = [NoCalls EXCEPT !.sp_inv = 1]
            /\ sp_inv_run
       ELSE IF ginverse_near_antipodal(line)
       THEN /\ calls' = [NoCalls EXCEPT !.pt_inv = 1]
            /\ pt_inv_run
       ELSE /\ calls' = [NoCalls EXCEPT !.in_inv = 1]
            /\ in_inv_begin
    /\ UNCHANGED ret
    /\ UNCHANGED bench_vars
    /\ UNCHANGED <<geod_vars, inv_vars>>
    /\ UNCHANGED conc_vars
    /\ UNCHANGED pair_vars

\* ---------------------------------------------------------------- the solvers

Init ==
    /\ line = FreshLine
    /\ old = FreshLine
    /\ pc = "idle"
    /\ top = "none"
    /\ loc = NoLocals
    /\ wr = {}
    /\ calls = NoCalls
    /\ ret = {}
    /\ unitS = 0
    /\ path = "none"
    /\ first = NoFirst
    /\ shared = FreshLine.E
    /\ thr = [t \in Threads |-> NoThread]
    /\ t_pc = 0
    /\ t_lon = 0
    /\ t_res = 0
    /\ t_res2 = 0
    /\ GEODESIC = ZeroGeodesic
    /\ gpc = "off"
    /\ run = NoRun
    /\ pinv = NoInv

Next ==
    \/ SetDirect
    \/ SetInverse
    \/ Release
    \/ proj_gforward
    \/ proj_sp_fwd
    \/ proj_in_fwd
    \/ proj_in_fwd_loop
    \/ proj_in_fwd_end
    \/ proj_pt_fwd
    \/ proj_sp_inv
    \/ proj_in_inv
    \/ func_loa_loop
    \/ func_loa_end
    \/ proj_in_inv_loop
    \/ proj_in_inv_end
    \/ proj_pt_inv
    \/ geod_inv

Spec == Init /\ [][Next]_vars

\* a call that has started keeps running: the solvers have no suspension points
FairSpec == Spec /\ WF_vars(Next)

\* ---------------------------------------------------------------- anti-nodal bench

\* latitudes on, next to and between the tolerances TOL1 and TOL2 of the
\* equator, and far from it
AntiPhi == {0, 1, TOL1, TOL1 + 1, TOL2, TOL2 + 1, -(TOL2 + 1), M_PI_2}

\* longitudes of pt2 (pt1 is at 0) short of the limit pi (1 - f), on it and
\* beyond it, on either side
AntiLam == {M_PI - 3, M_PI - 2, M_PI, -M_PI, M_PI + 1}

\* the caller has filled in the known fields of the inverse problem
AntiInit ==
    /\ line \in {Line(Point(0, p1), g, Point(l2, p2), g, g, e) :
                    p1 \in AntiPhi, p2 \in AntiPhi, l2 \in AntiLam,
                    e \in {Ellips(1, 0), Ellips(MaxA, 2)}, g \in Leftover}
    /\ old = FreshLine
    /\ pc = "inverse"
    /\ top = "none"
    /\ loc = NoLocals
    /\ wr = {}
    /\ calls = NoCalls
    /\ ret = {}
    /\ unitS = 0
    /\ path = "none"
    /\ first = NoFirst
    /\ shared = FreshLine.E
    /\ thr = [t \in Threads |-> NoThread]
    /\ t_pc = 0
    /\ t_lon = 0
    /\ t_res = 0
    /\ t_res2 = 0
    /\ GEODESIC = ZeroGeodesic
    /\ gpc = "off"
    /\ run = NoRun
    /\ pinv = NoInv

AntiNext ==
    \/ proj_in_inv
    \/ func_loa_loop
    \/ func_loa_end
    \/ proj_in_inv_loop
    \/ proj_in_inv_end

AntiSpec == AntiInit /\ [][AntiNext]_vars

\* ---------------------------------------------------------------- geod program

\* the program prints at most this many lines in the model: a loop that
\* counts down from a negative count is followed this far
MaxEmit == 4

\* the input of process has at most this many lines
MaxLines == 2

c_quot_whole(a, b) == a

\* the quotient of two doubles on the grid: DIST / n_S
c_quot(a, b) == Sgn(a) * Sgn(b) * (Abs(a) \div Abs(b))

geod_pre_adjusts(G) == [G EXCEPT !.ALPHA12 = adjlon(G.ALPHA12)]

\* geod_for.c 10-45: geod_pre
\*   ALPHA12 = adjlon(ALPHA12);  signS = fabs(ALPHA12) > HALFPI ? 1 : 0;
\*   th1 = ELLIPSE ? atan(ONEF * tan(p1.u)) : p1.u;
\*   merid = fabs(sina12 = sin(ALPHA12)) < MERI_TOL;  M, N, c1, c2, D, P, s1
geod_pre(G) ==
    LET al == adjlon(G.ALPHA12)
    IN  [G EXCEPT !.ALPHA12 = al,
                  !.K = [th1 |-> IF G.ELLIPSE THEN reduced_lat(G.f, G.p1.u)
                                              ELSE G.p1.u,
                         al12 |-> al,
                         merid |-> sin_below(al, MERI_TOL),
                         signS |-> Abs(al) > M_PI_2]]

\* geod_for.c 51-110: geod_for, with pos = (ALPHA21 > 0.) of line 71, phi2 the
\* atan of line 70 or 94, at the atan of line 89, de0 the atan2 of line 96 and
\* corr the term c1 * (..) of lines 100-104.  It reads merid, signS and the
\* other constants of geod_pre, ALPHA12, DIST and p1, and stores ALPHA21 and p2
geod_for(G, pos, phi2, at, de0, corr) ==
    IF G.K.merid
    THEN [G EXCEPT !.ALPHA21 = IF pos THEN M_PI ELSE 0,
                   !.p2 = [u |-> IF pos = G.K.signS THEN phi2 ELSE -phi2,
                           v |-> adjlon(G.p1.v + (IF pos = G.K.signS
                                                  THEN M_PI ELSE 0))]]
    ELSE LET a1 == IF at > 0 THEN at + M_PI ELSE at
             a2 == IF G.ALPHA12 < 0 THEN a1 - M_PI ELSE a1
             de == IF ~G.ELLIPSE THEN de0
                   ELSE IF G.K.signS THEN de0 + corr ELSE de0 - corr
         IN  [G EXCEPT !.ALPHA21 = adjlon(a2),
                       !.p2 = [u |-> phi2, v |-> adjlon(G.p1.v + de)]]

\* the values geod_for can store into a record
geod_for_values(G) ==
    {geod_for(G, pos, phi2, M_PI_2, M_PI_2, corr) :
        pos \in BOOLEAN, phi2 \in {M_PI_2 - 2}, corr \in {0, G.f}}

\* geod_inv.c 11-58: the values geod_inv can store into a record: the zero
\* line for coincident points (fabs(dlam) < DTOL && fabs(dthm) < DTOL, lines
\* 11-24), else DIST = A * d > 0 and the two azimuths
geod_inv_values(G) ==
    LET th1 == IF G.ELLIPSE THEN reduced_lat(G.f, G.p1.u) ELSE G.p1.u
        th2 == IF G.ELLIPSE THEN reduced_lat(G.f, G.p2.u) ELSE G.p2.u
    IN  IF Abs(adjlon(G.p2.v - G.p1.v)) < DTOL /\ Abs(th2 - th1) < 2 * DTOL
        THEN {[G EXCEPT !.ALPHA12 = 0, !.ALPHA21 = 0, !.DIST = 0]}
        ELSE {[G EXCEPT !.DIST = G.A * 6,
                        !.ALPHA12 = adjlon(TWOPI + v - u),
                        !.ALPHA21 = adjlon(TWOPI - v - u)] :
                 u \in {0, M_PI_2}, v \in {M_PI_2}}

\* printLL(..); putchar('\n'): one more line of output
emit(R, G, pt) ==
    [R EXCEPT !.emitted = Append(R.emitted,
                  [pt |-> pt, al12 |-> G.ALPHA12, dist |-> G.DIST,
                   p1 |-> G.p1, log |-> R.log]),
              !.log = <<>>]

\* a call of geod_inv, geod_pre or geod_for has been made
called(R, fn) == [R EXCEPT !.log = Append(R.log, fn)]

\* geod_set.c 23-69, GEOD_init up to geod_inv or geod_for: the record is
\* zeroed, the ellipsoid set (pj_ell_set gives A and es), and with +lat_1 the
\* line is read: p1 and p2 (+lat_2, +lon_2), or p1, +S and +A followed by
\* geod_pre; without +S emess(1, ..) ends the program.  The latitudes are 0
\* and near the pole, the longitudes 0 and near a half turn, +S is absent (0)
\* or a distance in either direction, +A is along the meridian northward,
\* eastward, or within MERI_TOL of the meridian southward
GEOD_init ==
    /\ gpc = "GEOD_init"
    /\ \E f \in {0, 2}, lat_1 \in BOOLEAN, lat_2 \in BOOLEAN,
          u1 \in {0, M_PI_2 - 2}, v1 \in {0, M_PI - 1},
          u2 \in {0, M_PI_2 - 2}, v2 \in {0, M_PI - 1},
          dS \in {-6, 0, 6}, rA \in {0, M_PI_2, -(M_PI - 1)} :
          LET G0 == [ZeroGeodesic EXCEPT !.A = 1, !.f = f, !.ELLIPSE = (f # 0)]
              G1 == [G0 EXCEPT !.p1 = [u |-> u1, v |-> v1]]
          IN  IF ~lat_1
              THEN GEODESIC' = G0 /\ gpc' = "main" /\ run' = run
              ELSE IF lat_2
              THEN /\ GEODESIC' = [G1 EXCEPT !.p2 = [u |-> u2, v |-> v2]]
                   /\ gpc' = "init_inv"
                   /\ run' = run
              ELSE IF dS # 0
              THEN /\ GEODESIC' = geod_pre([G1 EXCEPT !.DIST = dS,
                                                      !.ALPHA12 = rA])
                   /\ gpc' = "init_for"
                   /\ run' = called(run, "geod_pre")
              ELSE GEODESIC' = G1 /\ gpc' = "exit" /\ run' = run
    /\ UNCHANGED <<solver_vars, bench_vars, pair_vars, conc_vars, inv_vars>>

\* geod_set.c 65-66: geod_inv(GEODESIC);  geod_pre(GEODESIC);
GEOD_init_inv ==
    /\ gpc = "init_inv"
    /\ \E G \in geod_inv_values(GEODESIC) : GEODESIC' = geod_pre(G)
    /\ run' = called(called(run, "geod_inv"), "geod_pre")
    /\ gpc' = "init_mode"
    /\ UNCHANGED <<solver_vars, bench_vars, pair_vars, conc_vars, inv_vars>>

\* geod_set.c 70: geod_for(GEODESIC);
GEOD_init_for ==
    /\ gpc = "init_for"
    /\ GEODESIC' \in geod_for_values(GEODESIC)
    /\ run' = called(run, "geod_for")
    /\ gpc' = "init_mode"
    /\ UNCHANGED <<solver_vars, bench_vars, pair_vars, conc_vars, inv_vars>>

\* geod_set.c 72-78: the mode
\*   if ((n_alpha = pj_param(start, "in_A").i) > 0) {
\*       if (!(del_alpha = pj_param(start, "rdel_A").f)) emess(1, ..);
\*   } else if ((del_S = fabs(pj_param(start, "ddel_S").f))) {
\*       n_S = DIST / del_S + .5;
\*   } else if ((n_S = pj_param(start, "in_S").i) <= 0) emess(1, ..);
\* +n_A and +n_S are absent (0), negative or positive, +del_A is absent or an
\* increment, +del_S is absent, shorter than the distance, or more than twice
\* as long; the conversion of DIST / del_S + .5 to int truncates
GEOD_init_mode ==
    /\ gpc = "init_mode"
    /\ \E in_A \in {-1, 0, 2}, del_A \in {0, M_PI_2 + 1}, del_S \in {0, 4, 16},
          in_S \in {-1, 0, 1, 2} :
          LET G1 == [GEODESIC EXCEPT !.n_alpha = in_A]
              num == 2 * G1.DIST + Abs(del_S)
              den == 2 * Abs(del_S)
          IN  IF in_A > 0
              THEN /\ GEODESIC' = [G1 EXCEPT !.del_alpha = del_A]
                   /\ gpc' = IF del_A = 0 THEN "exit" ELSE "main"
              ELSE IF Abs(del_S) # 0
              THEN /\ GEODESIC' = [G1 EXCEPT !.n_S =
                          IF num >= 0 THEN num \div den ELSE -((-num) \div den)]
                   /\ gpc' = "main"
              ELSE /\ GEODESIC' = [G1 EXCEPT !.n_S = in_S]
                   /\ gpc' = IF in_S <= 0 THEN "exit" ELSE "main"
    /\ UNCHANGED run
    /\ UNCHANGED <<solver_vars, bench_vars, pair_vars, conc_vars, inv_vars>>

\* geod.c 218-226: after GEOD_init has returned
\*   if ((n_alpha || n_S) && eargc) emess(1, ..);
\*   if (n_alpha) do_arc(); else if (n_S) do_geod(); else process the files
main_mode(G, eargc) ==
    IF (G.n_alpha # 0 \/ G.n_S # 0) /\ eargc # 0 THEN "exit"
    ELSE IF G.n_alpha # 0 THEN "do_arc"
    ELSE IF G.n_S # 0 THEN "do_geod"
    ELSE "process"

main ==
    /\ gpc = "main"
    /\ gpc' = main_mode(GEODESIC, run.eargc)
    /\ run' = [run EXCEPT !.mode = main_mode(GEODESIC, run.eargc),
                          !.entry = GEODESIC, !.log = <<>>]
    /\ UNCHANGED GEODESIC
    /\ UNCHANGED <<solver_vars, bench_vars, pair_vars, conc_vars, inv_vars>>

\* geod.c 44-45: printLL(p2.u, p2.v);  az = ALPHA12
do_arc ==
    /\ gpc = "do_arc"
    /\ run' = [emit(run, GEODESIC, GEODESIC.p2) EXCEPT !.az = GEODESIC.ALPHA12]
    /\ gpc' = "arc_test"
    /\ UNCHANGED GEODESIC
    /\ UNCHANGED <<solver_vars, bench_vars, pair_vars, conc_vars, inv_vars>>

arc_again_above_one(n) == n > 1

\* geod.c 45: the test of the loop, n_alpha--
arc_again(n) == n # 0

\* geod.c 45-47: the test n_alpha-- and, when n_alpha was not 0,
\*   ALPHA12 = az = adjlon(az + del_alpha);  geod_pre(GEODESIC);
do_arc_test ==
    /\ gpc = "arc_test"
    /\ Len(run.emitted) < MaxEmit
    /\ IF arc_again(GEODESIC.n_alpha)
       THEN /\ GEODESIC' = geod_pre([GEODESIC EXCEPT
                               !.n_alpha = GEODESIC.n_alpha - 1,
                               !.ALPHA12 = adjlon(run.az + GEODESIC.del_alpha)])
            /\ run' = called([run EXCEPT
                                 !.az = adjlon(run.az + GEODESIC.del_alpha)],
                             "geod_pre")
            /\ gpc' = "arc_for"
       ELSE /\ GEODESIC' = [GEODESIC EXCEPT !.n_alpha = GEODESIC.n_alpha - 1]
            /\ run' = run
            /\ gpc' = "exit"
    /\ UNCHANGED <<solver_vars, bench_vars, pair_vars, conc_vars, inv_vars>>

\* geod.c 48-49: geod_for(GEODESIC);  printLL(p2.u, p2.v);
do_arc_for ==
    /\ gpc = "arc_for"
    /\ \E G \in geod_for_values(GEODESIC) :
          /\ GEODESIC' = G
          /\ run' = emit(called(run, "geod_for"), G, G.p2)
    /\ gpc' = "arc_test"
    /\ UNCHANGED <<solver_vars, bench_vars, pair_vars, conc_vars, inv_vars>>

\* geod.c 57-60: phil = p2.u;  laml = p2.v;  printLL(p1.u, p1.v);
\*   DIST = del_S = DIST / n_S
do_geod ==
    /\ gpc = "do_geod"
    /\ LET d == c_quot(GEODESIC.DIST, GEODESIC.n_S)
       IN  /\ run' = [emit(run, GEODESIC, GEODESIC.p1) EXCEPT
                         !.phil = GEODESIC.p2.u, !.laml = GEODESIC.p2.v,
                         !.del_S = d]
           /\ GEODESIC' = [GEODESIC EXCEPT !.DIST = d]
    /\ gpc' = "geod_test"
    /\ UNCHANGED <<solver_vars, bench_vars, pair_vars, conc_vars, inv_vars>>

\* geod.c 60: the test --(n_S)
do_geod_test ==
    /\ gpc = "geod_test"
    /\ Len(run.emitted) < MaxEmit
    /\ GEODESIC' = [GEODESIC EXCEPT !.n_S = GEODESIC.n_S - 1]
    /\ gpc' = IF GEODESIC.n_S - 1 # 0 THEN "geod_for" ELSE "geod_last"
    /\ UNCHANGED run
    /\ UNCHANGED <<solver_vars, bench_vars, pair_vars, conc_vars, inv_vars>>

\* geod.c 61-62 and the step of line 60: geod_for(GEODESIC);
\*   printLL(p2.u, p2.v);  DIST += del_S
do_geod_for ==
    /\ gpc = "geod_for"
    /\ \E G \in geod_for_values(GEODESIC) :
          /\ run' = emit(called(run, "geod_for"), G, G.p2)
          /\ GEODESIC' = [G EXCEPT !.DIST = G.DIST + run.del_S]
    /\ gpc' = "geod_test"
    /\ UNCHANGED <<solver_vars, bench_vars, pair_vars, conc_vars, inv_vars>>

\* geod.c 64: printLL(phil, laml);
do_geod_last ==
    /\ gpc = "geod_last"
    /\ run' = emit(run, GEODESIC, [u |-> run.phil, v |-> run.laml])
    /\ gpc' = "exit"
    /\ UNCHANGED GEODESIC
    /\ UNCHANGED <<solver_vars, bench_vars, pair_vars, conc_vars, inv_vars>>

\* geod.c 70-93: process reads a line: the end of the file, or p1 and either
\* p2, followed by geod_inv (89), or ALPHA12 and DIST, followed by geod_pre (93)
process ==
    /\ gpc = "process"
    /\ \/ /\ gpc' = "exit"
          /\ UNCHANGED <<GEODESIC, run>>
       \/ /\ Len(run.emitted) < MaxLines
          /\ \E p \in {[u |-> 0, v |-> 0], [u |-> M_PI_2 - 2, v |-> M_PI - 1]},
                q \in {[u |-> 0, v |-> 0], [u |-> 0, v |-> M_PI_2]},
                az \in {0, -M_PI_2} :
                IF run.inverse
                THEN /\ GEODESIC' \in geod_inv_values(
                                         [GEODESIC EXCEPT !.p1 = p, !.p2 = q])
                     /\ run' = called(run, "geod_inv")
                     /\ gpc' = "line_out"
                ELSE /\ GEODESIC' = geod_pre([GEODESIC EXCEPT !.p1 = p,
                                                 !.ALPHA12 = az, !.DIST = 6])
                     /\ run' = called(run, "geod_pre")
                     /\ gpc' = "line_for"
    /\ UNCHANGED <<solver_vars, bench_vars, pair_vars, conc_vars, inv_vars>>

\* geod.c 94: geod_for(GEODESIC);
process_for ==
    /\ gpc = "line_for"
    /\ GEODESIC' \in geod_for_values(GEODESIC)
    /\ run' = called(run, "geod_for")
    /\ gpc' = "line_out"
    /\ UNCHANGED <<solver_vars, bench_vars, pair_vars, conc_vars, inv_vars>>

\* geod.c 97-130: with -p a negative azimuth is raised by a full turn, and
\* the line of output is written
process_out ==
    /\ gpc = "line_out"
    /\ LET G == IF run.pos_azi
                THEN [GEODESIC EXCEPT !.ALPHA12 = raise_turn(GEODESIC.ALPHA12),
                                      !.ALPHA21 = raise_turn(GEODESIC.ALPHA21)]
                ELSE GEODESIC
       IN  /\ GEODESIC' = G
           /\ run' = emit(run, G, G.p2)
    /\ gpc' = "process"
    /\ UNCHANGED <<solver_vars, bench_vars, pair_vars, conc_vars, inv_vars>>

\* geod.c 137-216: the run line sets the flags and the input files
GeodInit ==
    /\ line = FreshLine
    /\ old = FreshLine
    /\ pc = "idle"
    /\ top = "none"
    /\ loc = NoLocals
    /\ wr = {}
    /\ calls = NoCalls
    /\ ret = {}
    /\ unitS = 0
    /\ path = "none"
    /\ first = NoFirst
    /\ shared = FreshLine.E
    /\ thr = [t \in Threads |-> NoThread]
    /\ t_pc = 0
    /\ t_lon = 0
    /\ t_res = 0
    /\ t_res2 = 0
    /\ GEODESIC = ZeroGeodesic
    /\ gpc = "GEOD_init"
    /\ run \in {[NoRun EXCEPT !.inverse = i, !.pos_azi = p, !.eargc = e] :
                   i \in BOOLEAN, p \in BOOLEAN, e \in {0, 1}}
    /\ run.eargc = 1 => ~run.inverse /\ ~run.pos_azi
    /\ pinv = NoInv

GeodNext ==
    \/ GEOD_init
    \/ GEOD_init_inv
    \/ GEOD_init_for
    \/ GEOD_init_mode
    \/ main
    \/ do_arc
    \/ do_arc_test
    \/ do_arc_for
    \/ do_geod
    \/ do_geod_test
    \/ do_geod_for
    \/ do_geod_last
    \/ process
    \/ process_for
    \/ process_out

GeodSpec == GeodInit /\ [][GeodNext]_vars

\* ---------------------------------------------------------------- proj_inv

\* proj_inv.c 42-66: proj_inv
\*   if (xy.x == HUGE_VAL || xy.y == HUGE_VAL) {
\*       lp.lam = lp.phi = HUGE_VAL;  proj_errno = -15; }
\*   errno = proj_errno = 0;
\*   xy.x = (xy.x * P->to_meter - P->x0) * P->ra;  and the same for xy.y
\*   lp = (*P->inv)(xy, P);
\*   if (proj_errno || (proj_errno = errno)) lp.lam = lp.phi = HUGE_VAL;
\*   else { lp.lam += P->netlam0;
\*          if (!P->over) lp.lam = proj_adjlon(lp.lam); }
\*   return lp;
\* to_meter and ra are one unit of the grid, and an infinite coordinate stays
\* infinite.  The projection's inverse (project.h 156, 229-231) returns some
\* lp and either leaves the error numbers alone, or sets proj_errno = -20
\* (I_ERROR), or has errno set by the mathematical library (EDOM = 33)
proj_inv ==
    /\ pinv.pc = "entry"
    /\ \E l \in {1, M_PI + 2}, e \in {<<0, 0>>, <<-20, 0>>, <<0, 33>>} :
          LET huge == pinv.xy.x = HUGE_VAL \/ pinv.xy.y = HUGE_VAL
              \* lines 46-49
              a == IF huge
                   THEN [pinv EXCEPT !.lp = [lam |-> HUGE_VAL, phi |-> HUGE_VAL],
                                     !.proj_errno = -15]
                   ELSE pinv
              \* lines 50-52
              b == [a EXCEPT !.errno = 0, !.proj_errno = 0,
                             !.xy = [x |-> IF a.xy.x = HUGE_VAL THEN HUGE_VAL
                                           ELSE a.xy.x - a.x0,
                                     y |-> IF a.xy.y = HUGE_VAL THEN HUGE_VAL
                                           ELSE a.xy.y - a.y0]]
              \* line 53
              c == [b EXCEPT !.lp = [lam |-> l, phi |-> 0],
                             !.proj_errno = IF e[1] # 0 THEN e[1] ELSE @,
                             !.errno = IF e[2] # 0 THEN e[2] ELSE @,
                             !.invoked = @ + 1]
              \* lines 54-65
              err == IF c.proj_errno # 0 THEN c.proj_errno ELSE c.errno
              lam == c.lp.lam + c.netlam0
          IN  pinv' = IF err # 0
                      THEN [c EXCEPT !.proj_errno = err,
                                     !.lp = [lam |-> HUGE_VAL, phi |-> HUGE_VAL],
                                     !.pc = "done"]
                      ELSE [c EXCEPT !.proj_errno = err,
                                     !.lp.lam = IF c.over THEN lam
                                                ELSE proj_adjlon(lam),
                                     !.pc = "done"]
    /\ UNCHANGED <<solver_vars, bench_vars, pair_vars, conc_vars, geod_vars>>

\* proj_inv.c 42: a caller enters proj_inv with some coordinates, a
\* projection, and the error numbers some earlier call has left
InvInit ==
    /\ line = FreshLine
    /\ old = FreshLine
    /\ pc = "idle"
    /\ top = "none"
    /\ loc = NoLocals
    /\ wr = {}
    /\ calls = NoCalls
    /\ ret = {}
    /\ unitS = 0
    /\ path = "none"
    /\ first = NoFirst
    /\ shared = FreshLine.E
    /\ thr = [t \in Threads |-> NoThread]
    /\ t_pc = 0
    /\ t_lon = 0
    /\ t_res = 0
    /\ t_res2 = 0
    /\ GEODESIC = ZeroGeodesic
    /\ gpc = "off"
    /\ run = NoRun
    /\ \E x \in {-3, 0, HUGE_VAL}, y \in {-3, 0, HUGE_VAL}, off \in {0, 1},
          n0 \in {0, M_PI_2}, over \in BOOLEAN, e \in {0, -20} :
          pinv = [NoInv EXCEPT !.pc = "entry", !.x = x, !.y = y,
                               !.xy = [x |-> x, y |-> y], !.x0 = off, !.y0 = off,
                               !.netlam0 = n0, !.over = over,
                               !.proj_errno = e]

InvNext == proj_inv

InvSpec == InvInit /\ [][InvNext]_vars

\* ---------------------------------------------------------------- equatorial bench

\* the caller has filled in the known fields of the inverse problem, with
\* longitudes in [-pi, pi] (both ends, and values whose differences are short
\* of a half turn, beyond it, and a full turn) and with latitudes on the
\* equator and far from it
EquInit ==
    /\ line \in LET lams == {-M_PI, -(M_PI - 3), -1, 0, 2, M_PI_2, M_PI}
                     phis == {0, TOL2 + 2}
                 IN  {Line(Point(l1, p1), g, Point(l2, p2), g, g, e) :
                         l1 \in lams, l2 \in lams, p1 \in phis, p2 \in phis,
                         e \in {Ellips(1, 0), Ellips(MaxA, 2)}, g \in Leftover}
    /\ old = FreshLine
    /\ pc = "inverse"
    /\ top = "none"
    /\ loc = NoLocals
    /\ wr = {}
    /\ calls = NoCalls
    /\ ret = {}
    /\ unitS = 0
    /\ path = "none"
    /\ first = NoFirst
    /\ shared = FreshLine.E
    /\ thr = [t \in Threads |-> NoThread]
    /\ t_pc = 0
    /\ t_lon = 0
    /\ t_res = 0
    /\ t_res2 = 0
    /\ GEODESIC = ZeroGeodesic
    /\ gpc = "off"
    /\ run = NoRun
    /\ pinv = NoInv

EquNext ==
    \/ proj_in_inv
    \/ func_loa_loop
    \/ func_loa_end
    \/ proj_in_inv_loop
    \/ proj_in_inv_end

EquSpec == EquInit /\ [][EquNext]_vars

\* ---------------------------------------------------------------- dispatcher bench

\* a pair of points that proj_in_inv would hand to func_loa is near-antipodal
\* and goes to proj_pt_inv: func_loa does not run under the dispatcher
GinvNext ==
    \/ SetInverse
    \/ Release
    \/ proj_ginverse
    \/ proj_in_inv_loop
    \/ proj_in_inv_end

GinvSpec == Init /\ [][GinvNext]_vars

\* ---------------------------------------------------------------- symmetry bench

\* the caller solves the same two points once more, exchanged, with the same
\* solver, on a record whose unknown fields hold what is left over
SwapPoints ==
    /\ pc = "done"
    /\ top \in {"proj_sp_inv", "proj_in_inv", "proj_pt_inv", "geod_inv"}
    /\ first.kind = "none"
    /\ first' = [kind |-> "swap", top |-> top, old |-> old, line |-> line,
                 unitS |-> unitS, s |-> loc.s]
    /\ \E g \in Leftover :
          line' = Line(line.pt2, g, line.pt1, g, g, line.E)
    /\ pc' = "inverse"
    /\ loc' = NoLocals
    /\ wr' = {}
    /\ ret' = {}
    /\ unitS' = 0
    /\ path' = "none"
    /\ UNCHANGED <<old, top, calls>>
    /\ UNCHANGED bench_vars
    /\ UNCHANGED <<geod_vars, inv_vars>>
    /\ UNCHANGED conc_vars

SymNext ==
    \/ SetInverse
    \/ SwapPoints
    \/ Release
    \/ proj_sp_inv
    \/ proj_in_inv
    \/ func_loa_loop
    \/ func_loa_end
    \/ proj_in_inv_loop
    \/ proj_in_inv_end
    \/ proj_pt_inv
    \/ geod_inv

SymSpec == Init /\ [][SymNext]_vars

\* ---------------------------------------------------------------- round trip bench

\* the distance is positive and well short of the antipode: a quarter of the
\* way round at most
trip_distance(A) == 0 < A.S /\ A.S <= A.E.a * M_PI_2

\* a second point the direct problem can have for such a distance: further
\* from the first point than the tolerances of the solvers, and on its
\* meridian only when the azimuth given runs along the meridian and the
\* distance is the meridian arc between the latitudes
trip_point(A0, A) ==
    /\ ~pt_inv_coincident(A)
    /\ Abs(proj_adjlon(A.pt2.lam - A.pt1.lam)) < TOL1 =>
           /\ A0.S = A0.E.a * Abs(merid_arc(A.E.es, A.pt1.phi, A.pt2.phi))
           /\ congruent(A0.az12, IF A.pt2.phi > A.pt1.phi THEN 0 ELSE M_PI)

\* the caller hands the two points of a direct solve to the inverse solver of
\* the same family, on a record whose unknown fields hold what is left over
RoundTrip ==
    /\ pc = "done"
    /\ top \in {"proj_sp_fwd", "proj_in_fwd", "proj_pt_fwd"}
    /\ first.kind = "none"
    /\ trip_distance(old)
    /\ trip_point(old, line)
    /\ first' = [kind |-> "trip", top |-> top, old |-> old, line |-> line,
                 unitS |-> unitS, s |-> loc.s]
    /\ \E g \in Leftover :
          line' = Line(line.pt1, g, line.pt2, g, g, line.E)
    /\ pc' = "inverse"
    /\ loc' = NoLocals
    /\ wr' = {}
    /\ ret' = {}
    /\ unitS' = 0
    /\ path' = "none"
    /\ UNCHANGED <<old, top, calls>>
    /\ UNCHANGED bench_vars
    /\ UNCHANGED <<geod_vars, inv_vars>>
    /\ UNCHANGED conc_vars

TripNext ==
    \/ SetDirect
    \/ RoundTrip
    \/ Release
    \/ proj_sp_fwd
    \/ proj_in_fwd
    \/ proj_in_fwd_loop
    \/ proj_in_fwd_end
    \/ proj_pt_fwd
    \/ proj_sp_inv
    \/ proj_in_inv
    \/ proj_in_inv_loop
    \/ proj_in_inv_end
    \/ proj_pt_inv

TripSpec == Init /\ [][TripNext]_vars

\* ---------------------------------------------------------------- reuse bench

\* the azimuths and the distances the caller of the reused record sets: one
\* distance is not positive
ReuseAz == {0, M_PI + 5}

ReuseS == {-1, M_PI_2}

\* the caller changes az12 or S in the record a proj_gforward call has left
\* and calls again: pt1, pt2, az21 and E stay as that call left them
Reuse ==
    /\ pc = "done"
    /\ top = "proj_gforward"
    /\ first' = [NoFirst EXCEPT !.kind = "reuse"]
    /\ \/ \E az \in ReuseAz : line' = [line EXCEPT !.az12 = az]
       \/ \E s \in ReuseS : line' = [line EXCEPT !.S = s]
    /\ pc' = "direct"
    /\ loc' = NoLocals
    /\ wr' = {}
    /\ ret' = {}
    /\ unitS' = 0
    /\ path' = "none"
    /\ UNCHANGED <<old, top, calls>>
    /\ UNCHANGED bench_vars
    /\ UNCHANGED <<geod_vars, inv_vars>>
    /\ UNCHANGED conc_vars

\* the record A as a caller who has just allocated it would pass it: the
\* known fields of A, the unknown ones holding what is left over
fresh_lines(A) ==
    {Line(A.pt1, A.az12, Point(g, g), g, A.S, A.E) : g \in Leftover}

\* the records proj_gforward can leave when called on A (proj_gforward.c
\* 43-49 with proj_in_fwd.c 81-89 and proj_sp_fwd.c 57-65)
gforward_results(A) ==
    IF gforward_invalid(A) THEN {A}
    ELSE IF gforward_ellipsoid(A.E)
    THEN {in_fwd_result(A, phi2, x, corr, back) :
             phi2 \in lat_range, x \in azimuth_range, corr \in {0, A.E.f},
             back \in azimuth_range}
    ELSE {sp_fwd_result(A, phi2, dlam, back) :
             phi2 \in asin_range, dlam \in atan2_range, back \in azimuth_range}

\* the caller has filled in a record it has just allocated
ReuseInit ==
    /\ line \in {Line(Point(0, M_PI_2 - 2), az, Point(g, g), g, s, e) :
                    az \in ReuseAz, s \in ReuseS,
                    e \in {Ellips(1, 0), Ellips(MaxA, 2)}, g \in Leftover}
    /\ old = FreshLine
    /\ pc = "direct"
    /\ top = "none"
    /\ loc = NoLocals
    /\ wr = {}
    /\ calls = NoCalls
    /\ ret = {}
    /\ unitS = 0
    /\ path = "none"
    /\ first = NoFirst
    /\ shared = FreshLine.E
    /\ thr = [t \in Threads |-> NoThread]
    /\ t_pc = 0
    /\ t_lon = 0
    /\ t_res = 0
    /\ t_res2 = 0
    /\ GEODESIC = ZeroGeodesic
    /\ gpc = "off"
    /\ run = NoRun
    /\ pinv = NoInv

ReuseNext ==
    \/ Reuse
    \/ proj_gforward
    \/ proj_in_fwd_loop
    \/ proj_in_fwd_end

ReuseSpec == ReuseInit /\ [][ReuseNext]_vars

\* ---------------------------------------------------------------- concurrent calls

\* the records the threads pass: each thread its own line and points, E the
\* shared ellipsoid
ConcDirect(E) ==
    {Line(Point(0, M_PI_2 - 2), az, Point(g, g), g, M_PI_2, E) :
        az \in {0, M_PI + 5}, g \in Leftover}

\* a meridional, a near-antipodal, a zero-line and a general inverse problem
ConcInverse(E) ==
    {Line(Point(0, 0), g, p2, g, g, E) :
        p2 \in {Point(0, M_PI_2), Point(M_PI, 0), Point(M_PI, TOL2 - 3),
                Point(M_PI_2, M_PI_2)},
        g \in Leftover}

\* the line as the call of thread record T sees it: A->E->f, A->E->es and
\* A->E->a are what the call read when it got to them
conc_seen(T) ==
    [T.line EXCEPT !.E = [T.line.E EXCEPT !.f = T.f, !.es = T.es, !.a = T.a]]

ConcSolvers == {"proj_sp_fwd", "proj_in_fwd", "proj_pt_fwd",
                "proj_sp_inv", "proj_in_inv", "proj_pt_inv"}

\* the solvers with a store to A->E->a among their stores
conc_stores_axis(fn) ==
    IF fn = "proj_in_fwd" THEN {"az21", "pt2.phi", "pt2.lam", "az12", "E.a"}
    ELSE IF fn \in {"proj_sp_fwd", "proj_pt_fwd"}
         THEN {"az21", "pt2.phi", "pt2.lam", "E.a"}
    ELSE {"S", "az12", "az21", "E.a"}

\* the locations a solver stores to: proj_in_fwd.c 54-89 (A->az21,
\* A->pt2->phi, A->pt2->lam, A->az12), proj_sp_fwd.c 59-64 and proj_pt_fwd.c
\* 122-131 (az21, pt2->phi, pt2->lam), proj_in_inv.c 242-380 with func_loa,
\* proj_sp_inv.c 70-90 and proj_pt_inv.c 59-91 (S, az12, az21)
conc_stores(fn) ==
    IF fn = "proj_in_fwd" THEN {"az21", "pt2.phi", "pt2.lam", "az12"}
    ELSE IF fn \in {"proj_sp_fwd", "proj_pt_fwd"}
         THEN {"az21", "pt2.phi", "pt2.lam"}
    ELSE {"S", "az12", "az21"}

\* the ellipsoid record after the stores st of a solver: a store to E.a
\* would leave the unit axis there
conc_ellipsoid(E, st) == [E EXCEPT !.a = IF "E.a" \in st THEN 1 ELSE @]

\* the solvers that read A->E->f, which they do first: proj_in_fwd.c 52,
\* proj_in_inv.c 235, proj_pt_fwd.c 50, proj_pt_inv.c 50
conc_reads_f(fn) == fn \notin {"proj_sp_fwd", "proj_sp_inv"}

\* the reads of A->E->a: proj_sp_fwd.c 51, proj_sp_inv.c 70, proj_in_fwd.c
\* 68, proj_pt_fwd.c 85, and proj_in_inv.c on its meridional return (242) and
\* on its general return (354) only; proj_pt_inv has none
conc_reads_a(T) ==
    \/ T.fn \in {"proj_sp_fwd", "proj_sp_inv", "proj_in_fwd", "proj_pt_fwd"}
    \/ /\ T.fn = "proj_in_inv"
       /\ in_inv_case(conc_seen(T)) \in {"meridional", "general"}

\* what the solver computes from the line A it sees; c in {0, 1} is the
\* part of the term of order f that libm contributes
conc_result(fn, A, c) ==
    IF fn = "proj_in_fwd" THEN in_fwd_result(A, 0, M_PI, c * A.E.f, 0)
    ELSE IF fn = "proj_sp_fwd" THEN sp_fwd_result(A, 0, M_PI_2, 0)
    ELSE IF fn = "proj_pt_fwd"
         THEN IF pt_fwd_merid(A) THEN pt_fwd_merid_result(A, TRUE)
              ELSE pt_fwd_general_result(A, 0, 0, M_PI_2, c * A.E.f)
    ELSE IF fn = "proj_sp_inv" THEN sp_inv_result(A, M_PI_2, 0, 0)
    ELSE IF fn = "proj_pt_inv"
         THEN IF pt_inv_coincident(A) THEN zero_line(A)
              ELSE pt_inv_result(A, M_PI_2, 0, 0)
    ELSE IF in_inv_case(A) = "meridional" THEN in_inv_meridional_result(A)
    ELSE IF in_inv_case(A) = "zero_line" THEN zero_line(A)
    ELSE IF in_inv_case(A) = "antipodal"
         THEN in_inv_antipodal_result(A, 0, in_inv_dlon(A), c * A.E.f)
    ELSE in_inv_general_result(A, A.pt2.lam - A.pt1.lam, M_PI_2, 0, 0)

\* another thread is inside a call
conc_overlap(t) == \E o \in Threads \ {t} : thr[o].pc \notin {"idle", "done"}

\* thread t calls a solver on its own record, which points to the ellipsoid
ConcCall(t) ==
    /\ thr[t].pc = "idle"
    /\ \E fn \in ConcSolvers :
          \E A \in IF fn \in {"proj_sp_fwd", "proj_in_fwd", "proj_pt_fwd"}
                   THEN ConcDirect(shared) ELSE ConcInverse(shared) :
             thr' = [thr EXCEPT ![t] =
                        [NoThread EXCEPT !.pc = IF conc_reads_f(fn) THEN "read_f"
                                                                    ELSE "read_a",
                                         !.fn = fn, !.line = A,
                                         !.out = A, !.met = conc_overlap(t)]]
    /\ UNCHANGED shared
    /\ UNCHANGED solver_vars
    /\ UNCHANGED pair_vars
    /\ UNCHANGED bench_vars
    /\ UNCHANGED <<geod_vars, inv_vars>>

\* proj_in_fwd.c 52: flat = A->E->f;  proj_in_inv.c 235: f = A->E->f;
\* proj_pt_fwd.c 50, proj_pt_inv.c 50: .. = Arc->E->f
ConcReadF(t) ==
    /\ thr[t].pc = "read_f"
    /\ LET T == [thr[t] EXCEPT !.f = shared.f]
       IN  thr' = [thr EXCEPT ![t] =
                      [T EXCEPT !.pc = IF T.fn = "proj_in_inv" THEN "read_es"
                                       ELSE IF conc_reads_a(T) THEN "read_a"
                                       ELSE "write",
                                !.met = @ \/ conc_overlap(t)]]
    /\ UNCHANGED shared
    /\ UNCHANGED solver_vars
    /\ UNCHANGED pair_vars
    /\ UNCHANGED bench_vars
    /\ UNCHANGED <<geod_vars, inv_vars>>

\* proj_in_inv.c 236: esq = A->E->es, and the tests of 238-280 that follow
ConcReadEs(t) ==
    /\ thr[t].pc = "read_es"
    /\ LET T == [thr[t] EXCEPT !.es = shared.es]
       IN  thr' = [thr EXCEPT ![t] =
                      [T EXCEPT !.pc = IF conc_reads_a(T) THEN "read_a" ELSE "write",
                                !.met = @ \/ conc_overlap(t)]]
    /\ UNCHANGED shared
    /\ UNCHANGED solver_vars
    /\ UNCHANGED pair_vars
    /\ UNCHANGED bench_vars
    /\ UNCHANGED <<geod_vars, inv_vars>>

\* proj_in_fwd.c 68: tu = A->S / A->E->a / r / c;  proj_sp_fwd.c 51:
\* S = A->S / A->E->a;  proj_pt_fwd.c 85: d = Arc->S / (D * Arc->E->a);
\* proj_in_inv.c 242, 354 and proj_sp_inv.c 70: A->S = A->E->a * ..
ConcReadA(t) ==
    /\ thr[t].pc = "read_a"
    /\ LET T == [thr[t] EXCEPT !.a = shared.a]
       IN  thr' = [thr EXCEPT ![t] =
                      [T EXCEPT !.tu = IF T.fn \in {"proj_sp_fwd", "proj_in_fwd",
                                                     "proj_pt_fwd"}
                                       THEN in_fwd_tu(conc_seen(T)) ELSE 0,
                                !.pc = "write",
                                !.met = @ \/ conc_overlap(t)]]
    /\ UNCHANGED shared
    /\ UNCHANGED solver_vars
    /\ UNCHANGED pair_vars
    /\ UNCHANGED bench_vars
    /\ UNCHANGED <<geod_vars, inv_vars>>

\* the stores of the call, all of them to the record and the points of
\* thread t, which no other thread reads
ConcWrite(t) ==
    /\ thr[t].pc = "write"
    /\ \E c \in {0, 1} :
          thr' = [thr EXCEPT ![t].c = c,
                             ![t].out = [conc_result(thr[t].fn, conc_seen(thr[t]), c)
                                            EXCEPT !.E = thr[t].line.E],
                             ![t].pc = "done",
                             ![t].met = @ \/ conc_overlap(t)]
    /\ shared' = conc_ellipsoid(shared, conc_stores(thr[t].fn))
    /\ UNCHANGED solver_vars
    /\ UNCHANGED pair_vars
    /\ UNCHANGED bench_vars
    /\ UNCHANGED <<geod_vars, inv_vars>>

\* the caller of thread t has read the results
ConcReturn(t) ==
    /\ thr[t].pc = "done"
    /\ thr' = [thr EXCEPT ![t] = NoThread]
    /\ UNCHANGED shared
    /\ UNCHANGED solver_vars
    /\ UNCHANGED pair_vars
    /\ UNCHANGED bench_vars
    /\ UNCHANGED <<geod_vars, inv_vars>>

ConcInit ==
    /\ line = FreshLine
    /\ old = FreshLine
    /\ pc = "idle"
    /\ top = "none"
    /\ loc = NoLocals
    /\ wr = {}
    /\ calls = NoCalls
    /\ ret = {}
    /\ unitS = 0
    /\ path = "none"
    /\ first = NoFirst
    /\ shared \in EllipsSet
    /\ thr = [t \in Threads |-> NoThread]
    /\ t_pc = 0
    /\ t_lon = 0
    /\ t_res = 0
    /\ t_res2 = 0
    /\ GEODESIC = ZeroGeodesic
    /\ gpc = "off"
    /\ run = NoRun
    /\ pinv = NoInv

ConcNext ==
    \E t \in Threads :
        \/ ConcCall(t)
        \/ ConcReadF(t)
        \/ ConcReadEs(t)
        \/ ConcReadA(t)
        \/ ConcWrite(t)
        \/ ConcReturn(t)

ConcSpec == ConcInit /\ [][ConcNext]_vars

\* ---------------------------------------------------------------- proj_adjlon bench

\* the angles handed to proj_adjlon: every grid angle up to the magnitude at
\* which the double 0.5 * (x + 1.0) has lost its fraction, and beyond
BenchMax == (2 * DBL_INT_LIMIT + 2) * M_PI

BenchInit ==
    /\ line = FreshLine
    /\ old = FreshLine
    /\ pc = "idle"
    /\ top = "none"
    /\ loc = NoLocals
    /\ wr = {}
    /\ calls = NoCalls
    /\ ret = {}
    /\ unitS = 0
    /\ path = "none"
    /\ first = NoFirst
    /\ shared = FreshLine.E
    /\ thr = [t \in Threads |-> NoThread]
    /\ t_pc = 0
    /\ t_lon \in (-BenchMax)..BenchMax
    /\ t_res = 0
    /\ t_res2 = 0
    /\ GEODESIC = ZeroGeodesic
    /\ gpc = "off"
    /\ run = NoRun
    /\ pinv = NoInv

\* lon = proj_adjlon(lon)
BenchApply ==
    /\ t_pc = 0
    /\ t_pc' = 1
    /\ t_res' = proj_adjlon(t_lon)
    /\ UNCHANGED <<t_lon, t_res2>>
    /\ UNCHANGED solver_vars
    /\ UNCHANGED <<geod_vars, inv_vars>>
    /\ UNCHANGED pair_vars
    /\ UNCHANGED conc_vars

\* lon = proj_adjlon(lon), once more on the result
BenchApplyAgain ==
    /\ t_pc = 1
    /\ t_pc' = 2
    /\ t_res2' = proj_adjlon(t_res)
    /\ UNCHANGED <<t_lon, t_res>>
    /\ UNCHANGED solver_vars
    /\ UNCHANGED <<geod_vars, inv_vars>>
    /\ UNCHANGED pair_vars
    /\ UNCHANGED conc_vars

BenchNext ==
    \/ BenchApply
    \/ BenchApplyAgain

BenchSpec == BenchInit /\ [][BenchNext]_vars

\* ---------------------------------------------------------------- proj_adjlon properties

\* the band of the test of proj_adjlon: an angle whose x = lon / pi is within
\* 3 * DBL_EPSILON of +-1 is returned as it is
adjlon_band == 3 * DBL_EPSILON

\* the input was reduced, not returned as it is
adjlon_reduced(lon) == Abs(lon) - ONE > adjlon_band

\* the double 0.5 * (x + 1.0) still has its fraction
adjlon_has_fraction(lon) == Abs(lon + ONE) < 2 * ONE * DBL_INT_LIMIT

\* C6, as the claim states it: for every input angle x, proj_adjlon(x) lies in
\* the half-open interval (-pi, pi], -pi excluded and pi included.
C6_half_open_range ==
    t_pc >= 1 => (-M_PI < t_res /\ t_res <= M_PI)

\* C6, amended: for every input angle x, proj_adjlon(x) lies in the closed
\* interval [-pi, pi] widened by the band of the test: a reduced input gives a
\* value in [-pi, pi), -pi included, and an input within the band of +-pi is
\* returned as it is.
C6_closed_range ==
    t_pc >= 1 =>
        /\ -M_PI - adjlon_band <= t_res
        /\ t_res <= M_PI + adjlon_band
        /\ adjlon_reduced(t_lon) => (-M_PI <= t_res /\ t_res < M_PI)
        /\ ~adjlon_reduced(t_lon) => t_res = t_lon

\* an angle of more than a turn was reduced to -pi itself
C6_witness ==
    /\ t_pc >= 1
    /\ t_lon = 3 * M_PI
    /\ t_res = -M_PI

\* C7, as the claim states it: for every input angle x, proj_adjlon(x) differs
\* from x by a whole multiple of 2 pi, inputs of very large magnitude and
\* inputs returned unchanged included.
C7_congruent ==
    t_pc >= 1 => (t_res - t_lon) % TWOPI = 0

\* C7, amended: proj_adjlon(x) differs from x by a whole multiple of 2 pi for
\* every x small enough that the double 0.5 * (x / pi + 1.0) keeps a fraction;
\* from the magnitude at which that double is a whole number the result is
\* -pi whatever x is.
C7_congruent_below_limit ==
    t_pc >= 1 =>
        IF adjlon_has_fraction(t_lon)
        THEN (t_res - t_lon) % TWOPI = 0
        ELSE t_res = -M_PI

\* an angle of several turns, below the limit, was reduced to another value
C7_witness ==
    /\ t_pc >= 1
    /\ Abs(t_lon) > 3 * M_PI
    /\ adjlon_has_fraction(t_lon)
    /\ t_res # t_lon
    /\ t_res # -M_PI

\* C8: proj_adjlon is idempotent: for every input angle x,
\* proj_adjlon(proj_adjlon(x)) equals proj_adjlon(x).
C8_idempotent ==
    t_pc = 2 => t_res2 = t_res

\* proj_adjlon was applied twice to an angle that its first application
\* reduced to a value on the edge of the band
C8_witness ==
    /\ t_pc = 2
    /\ adjlon_reduced(t_lon)
    /\ t_res = -M_PI
    /\ t_res2 = -M_PI

\* ---------------------------------------------------------------- proj_gforward properties

\* the calls the caller can make
DirectSolvers == {"proj_sp_fwd", "proj_in_fwd", "proj_pt_fwd"}

InverseSolvers == {"proj_sp_inv", "proj_in_inv", "proj_pt_inv", "geod_inv"}

\* a call has been made and has not returned
running == pc \notin {"idle", "direct", "inverse", "done"}

\* C2: on every proj_gforward call that passes the validation exactly one
\* solver runs, exactly once: proj_sp_fwd when E->f == 0 and proj_in_fwd when
\* E->f != 0 (and a call that fails the validation runs none).
C2_one_solver_once ==
    top = "proj_gforward" =>
        IF gforward_invalid(old) THEN calls = NoCalls
        ELSE IF old.E.f = 0
        THEN calls = [NoCalls EXCEPT !.sp_fwd = 1]
        ELSE calls = [NoCalls EXCEPT !.in_fwd = 1]

\* proj_gforward has returned from a call on an ellipsoid that ran proj_in_fwd
C2_witness ==
    /\ pc = "done"
    /\ top = "proj_gforward"
    /\ ~gforward_invalid(old)
    /\ old.E.f # 0
    /\ calls.in_fwd = 1
    /\ ret = {0}

\* C1: proj_gforward returns a non-zero value and leaves every field of the
\* line, both points and the ellipsoid unchanged whenever pt1 is NULL, S <= 0
\* or E is NULL; for every other line it returns 0, with no other outcome.
C1_fails_or_returns_zero ==
    /\ [](pc = "done" /\ top = "proj_gforward" /\ gforward_invalid(old)
            => ret # {} /\ 0 \notin ret /\ line = old)
    /\ [](pc = "done" /\ top = "proj_gforward" /\ ~gforward_invalid(old)
            => ret = {0})
    /\ (top = "proj_gforward" /\ ~gforward_invalid(old))
            ~> (pc = "done" /\ ret = {0})

\* ---------------------------------------------------------------- solver properties

\* C3: every solver call terminates: each refinement loop is limited by an
\* iteration cap, so a call that has started completes even when successive
\* iterates never come within the tolerance.
C3_every_call_returns ==
    running ~> (pc = "done")

\* C4: every direct solver returns with pt1, az12, S and the ellipsoid holding
\* exactly the values passed in, and every inverse solver returns with pt1,
\* pt2 and the ellipsoid holding exactly the values passed in.
C4_known_fields_kept ==
    pc = "done" =>
        /\ top \in DirectSolvers =>
              /\ line.pt1 = old.pt1
              /\ line.az12 = old.az12
              /\ line.S = old.S
              /\ line.E = old.E
        /\ top \in InverseSolvers =>
              /\ line.pt1 = old.pt1
              /\ line.pt2 = old.pt2
              /\ line.E = old.E

\* C5: every return path of every inverse solver assigns all three outputs
\* az12, az21 and S.
C5_outputs_assigned ==
    pc = "done" /\ top \in InverseSolvers =>
        {"az12", "az21", "S"} \subseteq wr

\* C9: after any direct solver call (proj_sp_fwd, proj_in_fwd, proj_pt_fwd, or
\* proj_gforward on valid input) the output longitude pt2.lam lies in
\* (-pi, pi], whatever the input longitude pt1.lam.
C9_lam_in_range ==
    /\ pc = "done"
    /\ top \in DirectSolvers \cup {"proj_gforward"}
    /\ path # "invalid"
    => (-M_PI < line.pt2.lam /\ line.pt2.lam <= M_PI)

\* C10: on every return path of an inverse solver with a non-zero distance, S
\* is the distance on the unit ellipsoid multiplied by the semi-major axis a.
C10_axis_units ==
    pc = "done" /\ top \in InverseSolvers /\ line.S # 0 =>
        line.S = line.E.a * unitS

\* ---------------------------------------------------------------- inverse solver properties

\* C11: for every point p and each inverse solver, solving the inverse problem
\* with pt1 = pt2 = p yields S = 0, az12 = 0 and az21 = 0.
C11_zero_distance ==
    pc = "done" /\ top \in InverseSolvers /\ same_point(old) =>
        /\ line.S = 0
        /\ line.az12 = 0
        /\ line.az21 = 0

\* C12: for two points on the same meridian (longitude difference below TOL1
\* in magnitude) proj_in_inv returns az12 = 0 and az21 = pi when the second
\* latitude is the greater, az12 = pi and az21 = 0 when it is the smaller, and
\* S = a times the absolute meridian arc between the two latitudes.
C12_meridian ==
    /\ pc = "done"
    /\ top = "proj_in_inv"
    /\ Abs(old.pt2.lam - old.pt1.lam) < TOL1
    => /\ path = "meridional"
       /\ old.pt2.phi > old.pt1.phi => (line.az12 = 0 /\ line.az21 = M_PI)
       /\ old.pt2.phi < old.pt1.phi => (line.az12 = M_PI /\ line.az21 = 0)
       /\ line.S = old.E.a * Abs(merid_arc(old.E.es, old.pt1.phi, old.pt2.phi))
       /\ line.S = old.E.a * unitS

\* proj_in_inv has solved p1 = (0, 0), p2 = (0, pi/2) on an ellipsoid with
\* a > 1: northward, and a times the quarter meridian
C12_witness ==
    /\ pc = "done"
    /\ top = "proj_in_inv"
    /\ old.pt1 = Point(0, 0)
    /\ old.pt2 = Point(0, M_PI_2)
    /\ old.E.f # 0
    /\ old.E.a > 1
    /\ line.az12 = 0
    /\ line.az21 = M_PI
    /\ line.S > M_PI_2

\* ---------------------------------------------------------------- C13

\* C13: solving (p1, p2) and solving (p2, p1) with the same inverse solver give
\* equal distances and exchanged azimuths: az12 of the second solve is az21 of
\* the first modulo a full turn, and az21 of the second is az12 of the first
C13_symmetric ==
    pc = "done" /\ first.kind = "swap" =>
        /\ line.S = first.line.S
        /\ congruent(line.az12, first.line.az21)
        /\ congruent(line.az21, first.line.az12)

\* ---------------------------------------------------------------- C14

\* C14: the inverse solver, given the first point of a direct solve and the
\* second point it computed, for a distance S > 0 well away from antipodal,
\* returns the S and (modulo a full turn) the az12 the direct solver was
\* given, and as az21 the back azimuth the direct solver returned
C14_round_trip ==
    pc = "done" /\ first.kind = "trip" =>
        /\ line.S = first.old.S
        /\ congruent(line.az12, first.old.az12)
        /\ congruent(line.az21, first.line.az21)

\* ---------------------------------------------------------------- C15

\* C15: calls that run concurrently on their own lines and one shared
\* ellipsoid never change the ellipsoid, and each leaves in its line what it
\* would leave running alone on the ellipsoid it was given, whatever the
\* interleaving of the reads and the stores
C15_as_sequential ==
    \A t \in Threads :
        /\ thr[t].pc # "idle" => thr[t].line.E = shared
        /\ thr[t].pc = "done" =>
               /\ thr[t].out = conc_result(thr[t].fn, thr[t].line, thr[t].c)
               /\ thr[t].fn \in {"proj_sp_fwd", "proj_in_fwd", "proj_pt_fwd"} =>
                      thr[t].tu = in_fwd_tu(thr[t].line)

\* two calls of different solvers that ran while the other was running, on an
\* ellipsoid with a # 1 and f # 0, have both returned
C15_witness ==
    /\ thr[1].pc = "done" /\ thr[2].pc = "done"
    /\ thr[1].met /\ thr[2].met
    /\ thr[1].fn = "proj_in_fwd" /\ thr[2].fn = "proj_in_inv"
    /\ shared.a > 1 /\ shared.f # 0
    /\ thr[2].out.S > 0

\* ---------------------------------------------------------------- C16

\* the pt2 and az21 of the line are those a call on a fresh record with the
\* pt1, az12, S and ellipsoid of the call that has returned could leave
as_on_fresh_line ==
    \E F \in fresh_lines(old) : \E R \in gforward_results(F) :
        R.pt2 = line.pt2 /\ R.az21 = line.az21

C17_dispatch ==
    top = "proj_ginverse" /\ pc # "idle" =>
        /\ calls.sp_inv + calls.in_inv + calls.pt_inv = 1
        /\ calls.sp_fwd + calls.in_fwd = 0
        /\ calls.sp_inv = 1 <=> old.E.f = 0
        /\ old.E.f # 0 =>
               /\ calls.pt_inv = 1 <=> ginverse_near_antipodal(old)
               /\ calls.in_inv = 1 <=> ~ginverse_near_antipodal(old)
        /\ calls.sp_inv = 1 => path = "sp_inv"
        /\ calls.pt_inv = 1 => path \in {"pt_inv", "pt_inv_coincident"}
        /\ calls.in_inv = 1 => path \in {"meridional", "zero_line", "general"}

\* an ellipsoidal call for a near-antipodal pair of points has returned
C17_witness ==
    /\ pc = "done" /\ top = "proj_ginverse"
    /\ old.E.f # 0 /\ ginverse_near_antipodal(old) /\ calls.pt_inv = 1
    /\ "S" \in wr

\* ---------------------------------------------------------------- C18, C19

\* the call of proj_in_inv that has returned had a reduced longitude
\* difference at or beyond the antipodal limit pi (1 - f)
at_antipodal_limit ==
    /\ pc = "done" /\ top = "proj_in_inv"
    /\ in_inv_ss(old) >= in_inv_alimit(old.E)

\* exactly one latitude is far from the equator, the other is on it
one_far_one_on_equator ==
    \/ Abs(old.pt1.phi) > TOL2 /\ Abs(old.pt2.phi) < TOL1
    \/ Abs(old.pt2.phi) > TOL2 /\ Abs(old.pt1.phi) < TOL1

is_zero_line == line.S = 0 /\ line.az12 = 0 /\ line.az21 = 0

\* C18 as stated: at the antipodal limit, with one latitude far from the
\* equator and the other on it, proj_in_inv returns the zero line
C18_zero_line ==
    at_antipodal_limit /\ one_far_one_on_equator => is_zero_line

\* C18 amended: in that case proj_in_inv does not take its anti-nodal block;
\* it returns from the general iteration, with the S = a * (arc), not zero,
\* and the azimuths in [0, 2 pi] that the iteration gives
C18_general_iteration ==
    at_antipodal_limit /\ one_far_one_on_equator =>
        /\ path = "general"
        /\ loc.n >= 1
        /\ {"S", "az12", "az21"} \subseteq wr
        /\ line.S = old.E.a * unitS /\ line.S > 0
        /\ 0 <= line.az12 /\ line.az12 <= TWOPI
        /\ 0 <= line.az21 /\ line.az21 <= TWOPI

C18_witness ==
    /\ at_antipodal_limit /\ one_far_one_on_equator
    /\ old.pt1.phi = 0 /\ old.pt2.phi > TOL2 /\ old.E.f # 0
    /\ ~is_zero_line

\* C19: at or beyond the antipodal limit, with r1 = |phi1| and r2 = |phi2|,
\* proj_in_inv uses func_loa exactly when both are at most TOL1; returns the
\* zero line exactly when one of them exceeds TOL1, not both exceed TOL2, and
\* it is not so that one is below TOL1 while the other exceeds TOL2; and goes
\* through the general iteration for every other input
C19_partition ==
    at_antipodal_limit =>
        LET r1 == Abs(old.pt1.phi)
            r2 == Abs(old.pt2.phi)
            loa == r1 <= TOL1 /\ r2 <= TOL1
            zero == /\ r1 > TOL1 \/ r2 > TOL1
                    /\ ~(r1 > TOL2 /\ r2 > TOL2)
                    /\ ~one_far_one_on_equator
        IN  /\ loa <=> (path = "antipodal" /\ loc.n >= 1 /\ loc.kount = 0)
            /\ zero <=> (path = "zero_line" /\ is_zero_line /\ loc.n = 0)
            /\ (~loa /\ ~zero) <=> (path = "general" /\ loc.n >= 1)

\* a call on the limit itself with one latitude equal to TOL1 and the other
\* on the equator has gone through func_loa
C19_witness ==
    /\ at_antipodal_limit
    /\ in_inv_ss(old) = in_inv_alimit(old.E) /\ old.E.f # 0
    /\ Abs(old.pt1.phi) = TOL1 /\ old.pt2.phi = 0
    /\ path = "antipodal" /\ loc.n >= 1

\* C20: when the normalised forward azimuth is on a meridian, proj_pt_fwd
\* returns with az21 stored as 0 or M_PI, pt2.phi stored as the computed
\* latitude, and pt2.lam stored as the normalised pt1.lam plus 0 or M_PI
C20_meridian_stores ==
    (pc = "done" /\ top = "proj_pt_fwd" /\ pt_fwd_merid(old)) =>
        /\ {"az21", "pt2.phi", "pt2.lam"} \subseteq wr
        /\ line.az21 \in {0, M_PI}
        /\ line.pt2.lam \in {proj_adjlon(old.pt1.lam),
                             proj_adjlon(old.pt1.lam + M_PI)}

\* C21: the general loop of proj_in_inv executes its body at most 7 times in a
\* call, and does not go round again once two successive estimates of the
\* longitude difference differ by less than 5e-14
C21_seven_passes ==
    [][pc = "in_inv_loop" =>
          /\ loc'.n <= KOUNT_MAX
          /\ pc' = "in_inv_loop" => Abs(loc'.ab - loc.ab) >= LOOP_TOL]_vars

\* C21, amended: the body is executed at most 8 times (with kount = 0..7),
\* and not again once two successive estimates differ by less than 5e-14
C21_eight_passes ==
    [][pc = "in_inv_loop" =>
          /\ loc'.n <= KOUNT_MAX + 1
          /\ pc' = "in_inv_loop" => Abs(loc'.ab - loc.ab) >= LOOP_TOL]_vars

\* the general loop has been left after its eighth pass
C21_witness ==
    /\ pc = "in_inv_end"
    /\ path = "general"
    /\ loc.n = KOUNT_MAX + 1
    /\ loc.kount = KOUNT_MAX + 1

\* C22: the loop of func_loa executes its body at most 6 times in a call, and
\* does not go round again once two successive azimuth estimates differ by
\* less than 5e-13
C22_six_passes ==
    [][pc = "loa_loop" =>
          /\ loc'.n <= ITER_MAX
          /\ pc' = "loa_loop" => ~loa_converged(loc'.s, loc.az)]_vars

\* C22, amended: the body is executed at most 7 times (with iter = 0..6), and
\* not again once two successive azimuth estimates differ by less than 5e-13
C22_seven_passes ==
    [][pc = "loa_loop" =>
          /\ loc'.n <= ITER_MAX + 1
          /\ pc' = "loa_loop" => ~loa_converged(loc'.s, loc.az)]_vars

\* func_loa's loop has been left after its seventh pass
C22_witness ==
    /\ pc = "loa_end"
    /\ path = "antipodal"
    /\ loc.n = ITER_MAX + 1
    /\ loc.iter = ITER_MAX + 1

\* C23: in proj_in_inv, past the meridional test, the longitude difference is
\* reduced to a value in [-M_PI, M_PI] congruent to pt2.lam - pt1.lam modulo
\* TWOPI, whatever the two longitudes are, and the magnitude compared with
\* the antipodal limit is the magnitude of that reduced value
C23_dlon_reduced ==
    (top = "proj_in_inv" /\ ~in_inv_meridional(old)) =>
        /\ -M_PI <= in_inv_dlon(old) /\ in_inv_dlon(old) <= M_PI
        /\ congruent(in_inv_dlon(old), old.pt2.lam - old.pt1.lam)
        /\ in_inv_ss(old) = Abs(in_inv_dlon(old))
        /\ path \in {"antipodal", "zero_line"} =>
               Abs(in_inv_dlon(old)) >= in_inv_alimit(old.E)

\* C24: in the general case of proj_in_inv both returned azimuths lie in
\* [0, TWOPI), whether they come from the equatorial assignment or from the
\* two atan2 evaluations
C24_half_open_turn ==
    (pc = "done" /\ top \in {"proj_in_inv", "proj_ginverse"} /\ path = "general") =>
        /\ 0 <= line.az12 /\ line.az12 < TWOPI
        /\ 0 <= line.az21 /\ line.az21 < TWOPI

\* C24, amended: both returned azimuths lie in [0, TWOPI], the upper end
\* included
C24_closed_turn ==
    (pc = "done" /\ top \in {"proj_in_inv", "proj_ginverse"} /\ path = "general") =>
        /\ 0 <= line.az12 /\ line.az12 <= TWOPI
        /\ 0 <= line.az21 /\ line.az21 <= TWOPI

\* a general-case call off the equator has returned the back azimuth TWOPI
\* and a forward azimuth that was raised by a full turn
C24_witness ==
    /\ pc = "done" /\ top = "proj_in_inv" /\ path = "general"
    /\ ~in_inv_on_equator(old)
    /\ line.az21 = TWOPI
    /\ line.az12 = 3 * M_PI_2

\* the longitude difference of a line reduced to (-M_PI, M_PI]
east_of(A) ==
    LET r == ((A.pt2.lam - A.pt1.lam + M_PI) % TWOPI) - M_PI
    IN  IF r = -M_PI THEN M_PI ELSE r

\* both points on the equator with longitudes in [-M_PI, M_PI], and a
\* separation that is neither meridional nor at the antipodal limit
on_equator_apart(A) ==
    /\ A.pt1.phi = 0 /\ A.pt2.phi = 0
    /\ Abs(A.pt1.lam) <= M_PI /\ Abs(A.pt2.lam) <= M_PI
    /\ Abs(east_of(A)) >= TOL1
    /\ Abs(east_of(A)) < in_inv_alimit(A.E)

\* C25: for two points on the equator with longitudes in [-M_PI, M_PI],
\* neither on one meridian nor at the antipodal limit, proj_in_inv returns
\* az12 = M_PI_2 when pt2 is east of pt1 the shorter way round and 3 M_PI_2
\* when it is west, and az21 = az12 + M_PI reduced into [0, TWOPI)
C25_equatorial ==
    (pc = "done" /\ top = "proj_in_inv" /\ on_equator_apart(old)) =>
        /\ path = "general"
        /\ {"az12", "az21"} \subseteq wr
        /\ line.az12 = IF east_of(old) > 0 THEN M_PI_2 ELSE 3 * M_PI_2
        /\ line.az21 = (line.az12 + M_PI) % TWOPI

\* a call with pt2 west of pt1 the shorter way round, the difference of the
\* longitudes as given being more than a half turn eastward, has returned
C25_witness ==
    /\ pc = "done" /\ top = "proj_in_inv" /\ on_equator_apart(old)
    /\ old.pt2.lam - old.pt1.lam > M_PI
    /\ east_of(old) < 0
    /\ line.az12 = 3 * M_PI_2 /\ line.az21 = M_PI_2

\* C26: in arc mode with repeat count n > 0, do_arc prints n + 1 points and
\* stops: first the end point of the line it was given, then n times the p2
\* that geod_pre followed by geod_for give for ALPHA12 = adjlon(previous
\* ALPHA12 + del_alpha), with p1 and DIST as they were
C26_arc_endpoints ==
    LET e == run.entry
        n == e.n_alpha
        out == run.emitted
    IN  (run.mode = "do_arc" /\ n > 0) =>
           /\ Len(out) <= n + 1
           /\ gpc = "exit" => Len(out) = n + 1
           /\ Len(out) >= 1 => out[1].pt = e.p2 /\ out[1].log = <<>>
           /\ gpc = "arc_test" => out[Len(out)].pt = GEODESIC.p2
           /\ \A k \in 2..Len(out) :
                 /\ out[k].log = <<"geod_pre", "geod_for">>
                 /\ out[k].al12 = adjlon((IF k = 2 THEN e.ALPHA12
                                                   ELSE out[k - 1].al12)
                                         + e.del_alpha)
                 /\ out[k].p1 = e.p1
                 /\ out[k].dist = e.DIST

\* do_arc has returned after a run with repeat count 2 that turned the
\* azimuth past a half turn
C26_witness ==
    /\ gpc = "exit" /\ run.mode = "do_arc"
    /\ run.entry.n_alpha = 2
    /\ Len(run.emitted) = 3
    /\ run.emitted[3].al12 # run.entry.ALPHA12 + 2 * run.entry.del_alpha

constants_of(G) ==
    [th1 |-> IF G.ELLIPSE THEN reduced_lat(G.f, G.p1.u) ELSE G.p1.u,
     al12 |-> G.ALPHA12,
     merid |-> sin_below(G.ALPHA12, MERI_TOL),
     signS |-> Abs(G.ALPHA12) > M_PI_2]

\* C28: wherever the geod program calls geod_for (in GEOD_init, do_arc,
\* do_geod and process), the constants that geod_pre stored are those of the
\* p1 and ALPHA12 the record holds at the call
C28_constants_current ==
    gpc \in {"init_for", "arc_for", "geod_for", "line_for"} =>
        GEODESIC.K = constants_of(GEODESIC)

\* process is about to call geod_for on its second line, whose p1 and
\* ALPHA12 differ from those of the first line
C28_witness ==
    /\ gpc = "line_for" /\ Len(run.emitted) = 1
    /\ run.emitted[1].p1 # GEODESIC.p1
    /\ run.emitted[1].al12 # GEODESIC.ALPHA12
    /\ GEODESIC.K.th1 # 0 /\ GEODESIC.K.al12 # 0

\* C29: main enters do_arc only with n_alpha > 0 and del_alpha != 0, and
\* do_geod only with n_S >= 1
C29_positive_counts ==
    /\ gpc = "do_arc" => GEODESIC.n_alpha > 0 /\ GEODESIC.del_alpha # 0
    /\ gpc = "do_geod" => GEODESIC.n_S >= 1

\* C30: when either coordinate passed to proj_inv is HUGE_VAL, the call
\* returns (HUGE_VAL, HUGE_VAL) with proj_errno = -15 and has not invoked the
\* projection's inverse
C30_huge_rejected ==
    (pinv.pc = "done" /\ (pinv.x = HUGE_VAL \/ pinv.y = HUGE_VAL)) =>
        /\ pinv.lp = [lam |-> HUGE_VAL, phi |-> HUGE_VAL]
        /\ pinv.proj_errno = -15
        /\ pinv.invoked = 0

====
